---- MODULE Spec2Model ----
(***************************************************************************)
(* nefaxer: the streaming walk / metadata / index pipeline.                *)
(*                                                                         *)
(* One walker thread sends filtered paths on a bounded path channel, a     *)
(* pool of metadata workers turns them into Entry records on a bounded     *)
(* entry channel, and the caller's thread consumes the entries: in write   *)
(* mode with apply_index_diff_streaming (batched inserts, deletion pass,   *)
(* WAL checkpoint, then the temp file is renamed over the index), in       *)
(* library / dry-run mode with diff_from_stream (Diff and current index).  *)
(***************************************************************************)
EXTENDS Integers, Sequences, FiniteSets, TLC

(* ------------------------------ bounds -------------------------------- *)

\* Number of candidate paths under the indexed root.
NumPaths == 2
\* Largest worker-pool size tried (tuning.num_threads).
MaxWorkers == 2
\* Largest channel capacity tried (tuning.channel_cap).
MaxCap == 2
\* DB_INSERT_BATCH_SIZE (utils/config.rs: 1000), scaled down.
DB_INSERT_BATCH_SIZE == 2
\* Width in bits of the signed integers that stand for i64, scaled down.
IntBits == 12
\* Longest exclude pattern and longest text handed to glob_match.
MaxPatternLen == 3
MaxTextLen == 2

(* ------------------------- program constants -------------------------- *)

SMALL_FILE_THRESHOLD == 4096

(* ------------------------------ domains ------------------------------- *)

Paths == 1..NumPaths
Workers == 1..MaxWorkers

\* Option<[u8; 32]> / Option<Vec<u8>>: None is the empty sequence, Some(h) is <<h>>.
None == << >>
Some(h) == << h >>

\* blake3 of a file's bytes: distinct contents give distinct digests.
Blake3(content) == 100 + content

EmptyMap == [p \in {} |-> 0]

\* A SQLite database as seen through a connection: the paths table (path -> StoredMeta)
\* and whether the diskinfo table holds a probe-cache row.
EmptyDb == [paths |-> EmptyMap, diskinfo |-> FALSE]
\* A file of the index directory: absent, or present with some content.
NoFile == << >>
File(db) == << db >>

\* All maps from a subset of S to T.
PartialMaps(S, T) == UNION {[D -> T] : D \in SUBSET S}

(* ------------------------------ state --------------------------------- *)

VARIABLES
    \* the tree on disk and what the environment does to the walk
    disk,            \* present path -> [mtime_ns, size, content, readable]
    walk_fail,       \* paths where the directory iterator yields an error
    meta_fail,       \* paths whose std::fs::metadata fails in a worker
    filtered,        \* paths for which should_include_in_walk is false
    dir_writable,    \* FALSE: removing / copying the temp file gets PermissionDenied
    is_network,      \* drive_type.is_network(): the probe cache is written
    \* Opts
    write_to_db, with_hash, strict, paranoid, mtime_window_ns,
    \* PipelineTuning
    num_threads, channel_cap,
    \* index files
    final_file,      \* <index>: NoFile or checkpointed database content
    temp_file,       \* <index>.tmp
    final0,          \* the index file's content when the run started
    temp_sidecars,   \* which of <index>.tmp-wal, <index>.tmp-shm exist
    use_temp,        \* prepare_index_work_path's second result
    conn,            \* content seen through the open connection (main file + WAL)
    existing,        \* load_index(conn) / the caller's prior snapshot
    \* orchestrator (nefax_dir_with_opts / run_lib_pipeline_with_callback)
    pc, result, renamed,
    \* walker thread
    walk_pc, walk_pos, count, path_chan, path_count_chan,
    first_error, skipped_paths,
    \* metadata workers
    w_pc, w_entry, entry_chan,
    \* apply_index_diff_streaming
    s_pc, current_paths, batch, written, batch_progress, received,
    cancel_requested, cancel_seen, after_cancel,
    \* diff_from_stream
    chunk, index_keys_not_seen, added, modified, removed, current_index,
    \* back-to-back runs
    run_no, conn1,
    \* a direct call of one of the crate's public functions
    call, ret, fn_pc,
    \* the paths hash_file has been called on during the current run
    hash_io

envVars == <<disk, walk_fail, meta_fail, filtered, dir_writable, is_network>>
optVars == <<write_to_db, with_hash, strict, paranoid, mtime_window_ns,
             num_threads, channel_cap>>
fileVars == <<final_file, temp_file, final0, temp_sidecars, use_temp, conn, existing>>
orchVars == <<pc, result, renamed>>
walkVars == <<walk_pc, walk_pos, count, path_chan, path_count_chan,
              first_error, skipped_paths>>
workVars == <<w_pc, w_entry, entry_chan>>
streamVars == <<s_pc, current_paths, batch, written, batch_progress, received,
                cancel_seen, after_cancel>>
diffVars == <<chunk, index_keys_not_seen, added, modified, removed, current_index>>
fnVars == <<call, ret, fn_pc>>
runVars == <<run_no, conn1, fnVars, hash_io>>

vars == <<envVars, optVars, fileVars, orchVars, walkVars, workVars,
          streamVars, cancel_requested, diffVars, runVars>>


(* --------------------------- pure functions --------------------------- *)

Abs(x) == IF x < 0 THEN -x ELSE x

\* i64::MIN and i64::MAX at the model's width.
I64_MIN == -(2 ^ (IntBits - 1))
I64_MAX == (2 ^ (IntBits - 1)) - 1
I64 == I64_MIN..I64_MAX

\* Two's-complement wrap-around of a mathematical integer into i64.
wrap_i64(x) == ((x - I64_MIN) % (2 ^ IntBits)) + I64_MIN

\* `a - b` on i64 with overflow checks off, and whether it overflows.
wrapping_sub(a, b) == wrap_i64(a - b)
sub_overflows(a, b) == (a - b) \notin I64
\* i64::abs with overflow checks off (i64::MIN stays i64::MIN), and whether it overflows.
wrapping_abs(x) == wrap_i64(Abs(x))
abs_overflows(x) == x = I64_MIN

\* Variant: a difference equal to the tolerance already counts as a change.
mtime_changed_inclusive(new_mtime, old_mtime, tolerance_ns) ==
    LET mtime_diff == wrapping_abs(wrapping_sub(new_mtime, old_mtime))
    IN  mtime_diff >= tolerance_ns
\* engine/tools.rs mtime_changed, as built with overflow checks off.
mtime_changed(new_mtime, old_mtime, tolerance_ns) ==
    LET mtime_diff == wrapping_abs(wrapping_sub(new_mtime, old_mtime))
    IN  mtime_diff > tolerance_ns
\* mtime_changed panics when built with overflow checks on and the
\* subtraction or the abs overflows.
mtime_changed_overflows(new_mtime, old_mtime) ==
    \/ sub_overflows(new_mtime, old_mtime)
    \/ abs_overflows(wrapping_sub(new_mtime, old_mtime))

\* Variant: an absent hash matches any hash.
hash_equals_absent_matches(hash1, hash2) ==
    hash1 = None \/ hash2 = None \/ hash1[1] = hash2[1]
\* engine/hashing.rs hash_equals
hash_equals(hash1, hash2) ==
    CASE hash1 = None /\ hash2 = None -> TRUE
      [] hash1 # None /\ hash2 # None -> hash1[1] = hash2[1]
      [] OTHER -> FALSE

\* engine/db_ops/indexer.rs entry_needs_update
entry_needs_update(entry, prior, window) ==
    IF entry.path \notin DOMAIN prior
    THEN TRUE
    ELSE LET old == prior[entry.path] IN
         \/ mtime_changed(entry.mtime_ns, old.mtime_ns, window)
         \/ old.size # entry.size
         \/ ~hash_equals(entry.hash, old.hash)

\* engine/hashing.rs hash_file on the file at root/path: Some(digest), or None
\* when the file cannot be opened or read.
hash_file(p) ==
    IF p \in DOMAIN disk /\ disk[p].readable
    THEN Some(Blake3(disk[p].content))
    ELSE None

\* Variant: the modification time falls back to 0 (`unwrap_or(0)`) every time.
path_to_entry_without_mtime(p) ==
    [path |-> p, mtime_ns |-> 0, size |-> disk[p].size, hash |-> None]
\* pipeline/metadata.rs path_to_entry (called with with_hash = false)
path_to_entry(p) ==
    [path |-> p, mtime_ns |-> disk[p].mtime_ns, size |-> disk[p].size, hash |-> None]

\* Variant: only files strictly larger than the threshold are hashed.
stream_hash_above_threshold(entry) ==
    IF with_hash /\ entry.size > SMALL_FILE_THRESHOLD /\ hash_file(entry.path) # None
    THEN [entry EXCEPT !.hash = hash_file(entry.path)]
    ELSE entry
\* The hashing step of apply_index_diff_streaming's receive loop.
stream_hash(entry) ==
    IF with_hash /\ entry.size >= SMALL_FILE_THRESHOLD /\ hash_file(entry.path) # None
    THEN [entry EXCEPT !.hash = hash_file(entry.path)]
    ELSE entry

\* The paths hash_file is called on by that step: the file is opened whenever
\* the guard holds, whether or not the hashing then succeeds.
stream_hash_io(entry) ==
    IF with_hash /\ entry.size >= SMALL_FILE_THRESHOLD THEN {entry.path} ELSE {}

\* The row execute_insert_entry writes for an entry.
RowOf(e) == [mtime_ns |-> e.mtime_ns, size |-> e.size, hash |-> e.hash]

\* INSERT OR REPLACE of one row.
InsertRow(tbl, e) ==
    [q \in DOMAIN tbl \cup {e.path} |-> IF q = e.path THEN RowOf(e) ELSE tbl[q]]

\* Variant: the transaction is never committed.
flush_batch_uncommitted(tbl, b) == tbl
\* flush_batch: every entry of the batch inserted in order, in one transaction.
RECURSIVE flush_batch(_, _)
flush_batch(tbl, b) ==
    IF b = << >> THEN tbl ELSE flush_batch(InsertRow(tbl, Head(b)), Tail(b))

\* Variant: no progress callback was given.
on_batch_progress_absent(progress, n) == progress
\* flush_batch after the commit: `if let Some(cb) = on_batch_progress { cb(n) }`;
\* progress holds the arguments of the calls so far.
on_batch_progress(progress, n) == Append(progress, n)

\* Variant: the deletion pass deletes nothing.
delete_nothing(tbl, prior, seen) == tbl
\* delete_removed_paths: every key of `prior` that is not in `seen` is deleted.
delete_removed_paths(tbl, prior, seen) ==
    [q \in DOMAIN tbl \ (DOMAIN prior \ seen) |-> tbl[q]]

\* The directory iterator's items: the paths present on disk, in walk order.
RECURSIVE WalkItemsFrom(_)
WalkItemsFrom(i) ==
    IF i > NumPaths THEN << >>
    ELSE IF i \notin DOMAIN disk THEN WalkItemsFrom(i + 1)
    ELSE << i >> \o WalkItemsFrom(i + 1)
WalkItems == WalkItemsFrom(1)

\* Variant: run_pipeline returns without dropping its entry sender.
EntryTxNotDropped == TRUE
\* The orchestrator's own entry sender after run_pipeline returned: it was
\* dropped with `drop(channels.entry_tx)`.
OrchestratorHoldsEntryTx == FALSE

\* Some entry sender is still alive (the entry channel is not disconnected).
EntrySendersAlive ==
    \/ OrchestratorHoldsEntryTx
    \/ \E w \in 1..num_threads : w_pc[w] # "done"

\* The entry receiver is alive until the consumer returns.
EntryReceiverAlive == s_pc \in {"idle", "recv", "flush", "delete", "checkpoint"}

\* Variant: the connection is opened on the index file itself even when
\* prepare_index_work_path chose the temp file.
ActiveIsFinal == FALSE
\* `if use_temp { (temp_path, true) } else { (db_path, false) }`: the database
\* the connection works on.
ActiveIsTemp == use_temp
ActiveFile == IF ActiveIsTemp THEN temp_file ELSE final_file

\* Variant: the WAL and SHM files of the temp path are left behind.
keep_temp_wal_and_shm(sidecars) == sidecars
\* utils/tempfiles.rs remove_temp_wal_and_shm: both files are removed.
remove_temp_wal_and_shm(sidecars) == sidecars \ {"wal", "shm"}


\* Variant: no stored blob passes the length test.
NeverIs32Bytes(h) == FALSE
\* A stored hash blob of 32 bytes: digests are 32 bytes long, any other stored
\* blob is modelled by a value below 100.
Is32Bytes(h) == h # None /\ h[1] >= 100

\* `reuse` of fill_entry_hash_if_needed: the row's hash is taken instead of
\* hashing the file.
can_reuse_hash(entry, index) ==
    /\ entry.path \in DOMAIN index
    /\ ~mtime_changed(entry.mtime_ns, index[entry.path].mtime_ns, mtime_window_ns)
    /\ entry.size = index[entry.path].size
    /\ Is32Bytes(index[entry.path].hash)

\* engine/hashing.rs fill_entry_hash_if_needed
fill_entry_hash_if_needed(entry, index) ==
    IF ~with_hash \/ entry.size < SMALL_FILE_THRESHOLD
    THEN entry
    ELSE LET reuse == can_reuse_hash(entry, index)
         IN IF reuse
            THEN [entry EXCEPT !.hash = index[entry.path].hash]
            ELSE IF hash_file(entry.path) # None
                 THEN [entry EXCEPT !.hash = hash_file(entry.path)]
                 ELSE entry

\* Variant: an entry found in the index is always reported as modified.
always_modified(entry, index) ==
    IF entry.path \notin DOMAIN index THEN "added" ELSE "modified"
\* check.rs collect_entry_into_diff: the list the entry's path is pushed to,
\* or "unchanged" when it is pushed to none.
collect_entry_into_diff(entry, index) ==
    IF entry.path \notin DOMAIN index
    THEN "added"
    ELSE LET old == index[entry.path]
             same == /\ ~mtime_changed(entry.mtime_ns, old.mtime_ns, mtime_window_ns)
                     /\ entry.size = old.size
                     /\ hash_equals(entry.hash, old.hash)
             still_modified ==
                 IF /\ paranoid
                    /\ entry.hash # None
                    /\ Is32Bytes(old.hash)
                    /\ hash_equals(entry.hash, old.hash)
                 THEN IF hash_file(entry.path) # None
                      THEN hash_file(entry.path)[1] # old.hash[1]
                      ELSE TRUE
                 ELSE TRUE
         IN IF same THEN "unchanged"
            ELSE IF still_modified THEN "modified" ELSE "unchanged"

\* The paths hash_file is called on while diff_from_stream handles one entry:
\* by fill_entry_hash_if_needed when the row's hash is not reused, and by the
\* paranoid re-hash of collect_entry_into_diff.
entry_hash_io(entry0, index) ==
    LET entry == fill_entry_hash_if_needed(entry0, index)
        filled == /\ with_hash
                  /\ entry0.size >= SMALL_FILE_THRESHOLD
                  /\ ~can_reuse_hash(entry0, index)
        rehashed == /\ entry.path \in DOMAIN index
                    /\ \/ mtime_changed(entry.mtime_ns, index[entry.path].mtime_ns,
                                         mtime_window_ns)
                       \/ entry.size # index[entry.path].size
                       \/ ~hash_equals(entry.hash, index[entry.path].hash)
                    /\ paranoid
                    /\ entry.hash # None
                    /\ Is32Bytes(index[entry.path].hash)
                    /\ hash_equals(entry.hash, index[entry.path].hash)
    IN  IF filled \/ rehashed THEN {entry0.path} ELSE {}
chunk_hash_io(c, index) ==
    UNION {entry_hash_io(c[i], index) : i \in 1..Len(c)}

\* Variant: a received path stays in index_keys_not_seen.
keep_not_seen(not_seen, path) == not_seen
\* `index_keys_not_seen.remove(&entry.path)`
remove_seen(not_seen, path) == not_seen \ {path}

\* The loop body of diff_from_stream for every entry of a chunk, in order.
\* st = [added, modified, current_index, index_keys_not_seen].
RECURSIVE drain_chunk(_, _, _)
drain_chunk(c, index, st) ==
    IF c = << >> THEN st
    ELSE LET entry == fill_entry_hash_if_needed(Head(c), index)
             class == collect_entry_into_diff(entry, index)
             st1 == [added |-> IF class = "added"
                               THEN Append(st.added, entry.path) ELSE st.added,
                     modified |-> IF class = "modified"
                                  THEN Append(st.modified, entry.path) ELSE st.modified,
                     current_index |->
                         [q \in DOMAIN st.current_index \cup {entry.path} |->
                             IF q = entry.path THEN RowOf(entry) ELSE st.current_index[q]],
                     index_keys_not_seen |-> remove_seen(st.index_keys_not_seen, entry.path)]
         IN drain_chunk(Tail(c), index, st1)

\* The orders in which a HashSet can be collected into a Vec.
Orderings(S) ==
    {f \in [1..Cardinality(S) -> S] : \A i, j \in 1..Cardinality(S) : i # j => f[i] # f[j]}

\* The elements of a list.
Range(f) == {f[i] : i \in DOMAIN f}

(* ------------------------------ walker -------------------------------- *)
(* pipeline/walk.rs run_walk_loop, one iteration of `for outcome in iter`. *)

\* WalkOutcome::Ok(path) that passes should_include_in_walk: bounded-blocking send.
WalkSend ==
    /\ walk_pc = "iter"
    /\ walk_pos <= Len(WalkItems)
    /\ LET p == WalkItems[walk_pos] IN
         /\ p \notin walk_fail
         /\ p \notin filtered
         /\ IF \A w \in 1..num_threads : w_pc[w] = "done"
            THEN \* send fails: every path receiver is gone
                 /\ walk_pc' = "count"
                 /\ UNCHANGED <<walk_pos, count, path_chan>>
            ELSE /\ Len(path_chan) < channel_cap
                 /\ path_chan' = Append(path_chan, p)
                 /\ count' = count + 1
                 /\ walk_pos' = walk_pos + 1
                 /\ UNCHANGED walk_pc
    /\ UNCHANGED <<path_count_chan, first_error, skipped_paths>>
    /\ UNCHANGED <<envVars, optVars, fileVars, orchVars, workVars, streamVars,
                   cancel_requested, diffVars, runVars>>

\* WalkOutcome::Ok(path) rejected by should_include_in_walk.
WalkFiltered ==
    /\ walk_pc = "iter"
    /\ walk_pos <= Len(WalkItems)
    /\ WalkItems[walk_pos] \notin walk_fail
    /\ WalkItems[walk_pos] \in filtered
    /\ walk_pos' = walk_pos + 1
    /\ UNCHANGED <<walk_pc, count, path_chan, path_count_chan, first_error, skipped_paths>>
    /\ UNCHANGED <<envVars, optVars, fileVars, orchVars, workVars, streamVars,
                   cancel_requested, diffVars, runVars>>

\* Variant: strict records the error but the loop goes on.
WalkErrorWithoutBreak ==
    /\ walk_pc = "iter"
    /\ walk_pos <= Len(WalkItems)
    /\ LET p == WalkItems[walk_pos] IN
         /\ p \in walk_fail
         /\ IF strict
            THEN /\ first_error' = IF first_error = None THEN Some(p) ELSE first_error
                 /\ walk_pos' = walk_pos + 1
                 /\ UNCHANGED <<walk_pc, skipped_paths>>
            ELSE /\ skipped_paths' = Append(skipped_paths, p)
                 /\ walk_pos' = walk_pos + 1
                 /\ UNCHANGED <<walk_pc, first_error>>
    /\ UNCHANGED <<count, path_chan, path_count_chan>>
    /\ UNCHANGED <<envVars, optVars, fileVars, orchVars, workVars, streamVars,
                   cancel_requested, diffVars, runVars>>

\* WalkOutcome::Err: strict records the first error and breaks, else the
\* error goes to the skipped ledger and the loop continues.
WalkError ==
    /\ walk_pc = "iter"
    /\ walk_pos <= Len(WalkItems)
    /\ LET p == WalkItems[walk_pos] IN
         /\ p \in walk_fail
         /\ IF strict
            THEN /\ first_error' = IF first_error = None THEN Some(p) ELSE first_error
                 /\ walk_pc' = "count"
                 /\ UNCHANGED <<walk_pos, skipped_paths>>
            ELSE /\ skipped_paths' = Append(skipped_paths, p)
                 /\ walk_pos' = walk_pos + 1
                 /\ UNCHANGED <<walk_pc, first_error>>
    /\ UNCHANGED <<count, path_chan, path_count_chan>>
    /\ UNCHANGED <<envVars, optVars, fileVars, orchVars, workVars, streamVars,
                   cancel_requested, diffVars, runVars>>

\* The iterator is drained.
WalkDrained ==
    /\ walk_pc = "iter"
    /\ walk_pos > Len(WalkItems)
    /\ walk_pc' = "count"
    /\ UNCHANGED <<walk_pos, count, path_chan, path_count_chan, first_error, skipped_paths>>
    /\ UNCHANGED <<envVars, optVars, fileVars, orchVars, workVars, streamVars,
                   cancel_requested, diffVars, runVars>>

\* Variant: the number of items iterated is sent, not the number of paths sent.
WalkSendItemCount ==
    /\ walk_pc = "count"
    /\ path_count_chan' = Append(path_count_chan, walk_pos - 1)
    /\ walk_pc' = "close"
    /\ UNCHANGED <<walk_pos, count, path_chan, first_error, skipped_paths>>
    /\ UNCHANGED <<envVars, optVars, fileVars, orchVars, workVars, streamVars,
                   cancel_requested, diffVars, runVars>>

\* `let _ = path_count_tx.send(count)` on the single-slot count channel:
\* path_count_chan holds the values handed to send (a value is delivered if
\* the caller still holds the receiver; the result of send is ignored).
WalkSendCount ==
    /\ walk_pc = "count"
    /\ path_count_chan' = Append(path_count_chan, count)
    /\ walk_pc' = "close"
    /\ UNCHANGED <<walk_pos, count, path_chan, first_error, skipped_paths>>
    /\ UNCHANGED <<envVars, optVars, fileVars, orchVars, workVars, streamVars,
                   cancel_requested, diffVars, runVars>>

\* drop(path_tx); the thread returns count.
WalkClose ==
    /\ walk_pc = "close"
    /\ walk_pc' = "done"
    /\ UNCHANGED <<walk_pos, count, path_chan, path_count_chan, first_error, skipped_paths>>
    /\ UNCHANGED <<envVars, optVars, fileVars, orchVars, workVars, streamVars,
                   cancel_requested, diffVars, runVars>>

(* -------------------------- metadata workers -------------------------- *)
(* pipeline/metadata.rs metadata_worker_loop.                              *)

\* Variant: the worker reads the head of the path channel without taking it.
WorkerRecvWithoutTake(w) ==
    /\ w_pc[w] = "recv"
    /\ path_chan # << >>
    /\ LET p == Head(path_chan) IN
         IF p \in meta_fail
         THEN UNCHANGED <<w_pc, w_entry>>
         ELSE /\ w_entry' = [w_entry EXCEPT ![w] = Some(path_to_entry(p))]
              /\ w_pc' = [w_pc EXCEPT ![w] = "send"]
    /\ UNCHANGED <<path_chan, entry_chan>>
    /\ UNCHANGED <<walk_pc, walk_pos, count, path_count_chan, first_error, skipped_paths>>
    /\ UNCHANGED <<envVars, optVars, fileVars, orchVars, streamVars,
                   cancel_requested, diffVars, runVars>>

\* path_rx.recv() returns a path; path_to_entry reads its metadata.
WorkerRecv(w) ==
    /\ w_pc[w] = "recv"
    /\ path_chan # << >>
    /\ LET p == Head(path_chan) IN
         IF p \in meta_fail
         THEN UNCHANGED <<w_pc, w_entry>>
         ELSE /\ w_entry' = [w_entry EXCEPT ![w] = Some(path_to_entry(p))]
              /\ w_pc' = [w_pc EXCEPT ![w] = "send"]
    /\ path_chan' = Tail(path_chan)
    /\ UNCHANGED entry_chan
    /\ UNCHANGED <<walk_pc, walk_pos, count, path_count_chan, first_error, skipped_paths>>
    /\ UNCHANGED <<envVars, optVars, fileVars, orchVars, streamVars,
                   cancel_requested, diffVars, runVars>>

\* `let _ = entry_tx.send(entry)`: blocks while the channel is full, fails
\* (and is ignored) when the receiver is gone.
\* Variant: a send on the closed entry channel waits like one on a full channel.
WorkerSendWaitsWhenClosed(w) ==
    /\ w_pc[w] = "send"
    /\ EntryReceiverAlive
    /\ Len(entry_chan) < channel_cap
    /\ entry_chan' = Append(entry_chan, w_entry[w][1])
    /\ w_entry' = [w_entry EXCEPT ![w] = None]
    /\ w_pc' = [w_pc EXCEPT ![w] = "recv"]
    /\ UNCHANGED <<walkVars, envVars, optVars, fileVars, orchVars, streamVars,
                   cancel_requested, diffVars, runVars>>

WorkerSend(w) ==
    /\ w_pc[w] = "send"
    /\ IF EntryReceiverAlive
       THEN /\ Len(entry_chan) < channel_cap
            /\ entry_chan' = Append(entry_chan, w_entry[w][1])
       ELSE UNCHANGED entry_chan
    /\ w_entry' = [w_entry EXCEPT ![w] = None]
    /\ w_pc' = [w_pc EXCEPT ![w] = "recv"]
    /\ UNCHANGED <<walkVars, envVars, optVars, fileVars, orchVars, streamVars,
                   cancel_requested, diffVars, runVars>>

\* path_rx.recv() fails: the path channel is empty and the walker dropped
\* path_tx. The worker drops its entry sender and exits.
WorkerExit(w) ==
    /\ w_pc[w] = "recv"
    /\ path_chan = << >>
    /\ walk_pc = "done"
    /\ w_pc' = [w_pc EXCEPT ![w] = "done"]
    /\ UNCHANGED <<w_entry, entry_chan>>
    /\ UNCHANGED <<walkVars, envVars, optVars, fileVars, orchVars, streamVars,
                   cancel_requested, diffVars, runVars>>


(* --------------------- apply_index_diff_streaming --------------------- *)
(* engine/db_ops/indexer.rs. The connection's content changes at each      *)
(* commit; the main database file changes at the checkpoint.               *)

\* recv_timeout / recv returned Ok(entry): one iteration of the loop body.
StreamRecvOk ==
    /\ s_pc = "recv"
    /\ write_to_db
    /\ entry_chan # << >>
    /\ LET entry == stream_hash(Head(entry_chan))
           batch1 == IF entry_needs_update(entry, existing, mtime_window_ns)
                     THEN Append(batch, entry)
                     ELSE batch
       IN /\ entry_chan' = Tail(entry_chan)
          /\ received' = received + 1
          /\ current_paths' = current_paths \cup {entry.path}
          /\ IF Len(batch1) >= DB_INSERT_BATCH_SIZE
             THEN /\ conn' = [conn EXCEPT !.paths = flush_batch(conn.paths, batch1)]
                  /\ written' = written + Len(batch1)
                  /\ batch_progress' = on_batch_progress(batch_progress, Len(batch1))
                  /\ batch' = << >>
             ELSE /\ batch' = batch1
                  /\ UNCHANGED <<conn, written, batch_progress>>
    /\ after_cancel' = IF cancel_requested THEN after_cancel + 1 ELSE after_cancel
    /\ UNCHANGED <<s_pc, cancel_seen, cancel_requested>>
    /\ UNCHANGED <<final_file, temp_file, final0, temp_sidecars, use_temp, existing>>
    /\ hash_io' = hash_io \cup stream_hash_io(Head(entry_chan))
    /\ UNCHANGED <<w_pc, w_entry>>
    /\ UNCHANGED <<envVars, optVars, orchVars, walkVars, diffVars, run_no, conn1, fnVars>>

\* recv_timeout returned Timeout (nothing arrived for 200 ms while a sender is
\* alive): the cancel flag is read; true breaks the loop, false continues.
StreamRecvTimeout ==
    /\ s_pc = "recv"
    /\ write_to_db
    /\ entry_chan = << >>
    /\ EntrySendersAlive
    /\ IF cancel_requested
       THEN /\ s_pc' = "flush"
            /\ cancel_seen' = TRUE
       ELSE UNCHANGED <<s_pc, cancel_seen>>
    /\ UNCHANGED <<current_paths, batch, written, batch_progress, received, after_cancel, cancel_requested>>
    /\ UNCHANGED <<envVars, optVars, fileVars, orchVars, walkVars, workVars,
                   diffVars, runVars>>

\* recv_timeout returned Disconnected: the channel is empty and every sender
\* was dropped.
StreamRecvDisconnected ==
    /\ s_pc = "recv"
    /\ write_to_db
    /\ entry_chan = << >>
    /\ ~EntrySendersAlive
    /\ s_pc' = "flush"
    /\ UNCHANGED <<current_paths, batch, written, batch_progress, received, cancel_seen, after_cancel,
                   cancel_requested>>
    /\ UNCHANGED <<envVars, optVars, fileVars, orchVars, walkVars, workVars,
                   diffVars, runVars>>

\* After the loop: the remainder of the batch is flushed.
StreamFlushRest ==
    /\ s_pc = "flush"
    /\ IF batch # << >>
       THEN /\ conn' = [conn EXCEPT !.paths = flush_batch(conn.paths, batch)]
            /\ written' = written + Len(batch)
            /\ batch_progress' = on_batch_progress(batch_progress, Len(batch))
       ELSE UNCHANGED <<conn, written, batch_progress>>
    /\ s_pc' = "delete"
    /\ UNCHANGED <<current_paths, batch, received, cancel_seen, after_cancel,
                   cancel_requested>>
    /\ UNCHANGED <<final_file, temp_file, final0, temp_sidecars, use_temp, existing>>
    /\ UNCHANGED <<envVars, optVars, orchVars, walkVars, workVars, diffVars, runVars>>

\* The deletion pass.
StreamDelete ==
    /\ s_pc = "delete"
    /\ conn' = [conn EXCEPT !.paths = delete_removed_paths(conn.paths, existing, current_paths)]
    /\ s_pc' = "checkpoint"
    /\ UNCHANGED <<current_paths, batch, written, batch_progress, received, cancel_seen, after_cancel,
                   cancel_requested>>
    /\ UNCHANGED <<final_file, temp_file, final0, temp_sidecars, use_temp, existing>>
    /\ UNCHANGED <<envVars, optVars, orchVars, walkVars, workVars, diffVars, runVars>>

\* PRAGMA wal_checkpoint(TRUNCATE): the WAL is copied into the main database
\* file; the function returns Ok(written) and drops entry_rx.
StreamCheckpoint ==
    /\ s_pc = "checkpoint"
    /\ IF ActiveIsTemp
       THEN /\ temp_file' = File(conn)
            /\ UNCHANGED final_file
       ELSE /\ final_file' = File(conn)
            /\ UNCHANGED temp_file
    /\ s_pc' = "ok"
    /\ entry_chan' = << >>
    /\ UNCHANGED <<w_pc, w_entry>>
    /\ UNCHANGED <<current_paths, batch, written, batch_progress, received, cancel_seen, after_cancel,
                   cancel_requested>>
    /\ UNCHANGED <<final0, temp_sidecars, use_temp, conn, existing>>
    /\ UNCHANGED <<envVars, optVars, orchVars, walkVars, diffVars, runVars>>

\* The Ctrl+C handler installed by setup_ctrlc_handler stores true in the flag.
CtrlC ==
    /\ pc \in {"pipeline", "stream", "check", "rename", "cancel"}
    /\ write_to_db
    /\ ~cancel_requested
    /\ cancel_requested' = TRUE
    /\ UNCHANGED <<envVars, optVars, fileVars, orchVars, walkVars, workVars,
                   streamVars, diffVars, runVars>>


(* ------------------- nefax_dir_with_opts (write mode) ----------------- *)
(* index.rs, with utils/tempfiles.rs and pipeline/orchestrator.rs.         *)

\* prepare_index_work_path: a stale temp file is removed and the existing
\* index is copied to the temp path; PermissionDenied on either falls back to
\* working on the index file in place.
PrepareIndexWorkPath ==
    /\ pc = "prepare"
    /\ write_to_db
    /\ LET removed_ok == temp_file = NoFile \/ dir_writable
           temp1 == IF dir_writable THEN NoFile ELSE temp_file
       IN IF removed_ok /\ final_file # NoFile
          THEN IF dir_writable
               THEN temp_file' = final_file /\ use_temp' = TRUE
               ELSE temp_file' = temp1 /\ use_temp' = FALSE
          ELSE temp_file' = temp1 /\ use_temp' = removed_ok
    /\ temp_sidecars' = IF temp_file # NoFile /\ dir_writable
                        THEN remove_temp_wal_and_shm(temp_sidecars)
                        ELSE temp_sidecars
    /\ pc' = "open"
    /\ UNCHANGED <<final_file, final0, conn, existing, result, renamed>>
    /\ UNCHANGED <<envVars, optVars, walkVars, workVars, streamVars,
                   cancel_requested, diffVars, runVars>>

\* open_db / open_db_or_detect_encrypted on the active path, then load_index
\* and setup_ctrlc_handler. Opening creates a missing database file, which
\* needs a writable directory.
OpenDb ==
    /\ pc = "open"
    /\ IF ActiveFile = NoFile
       THEN IF dir_writable
            THEN /\ IF ActiveIsTemp
                    THEN temp_file' = File(EmptyDb) /\ UNCHANGED final_file
                    ELSE final_file' = File(EmptyDb) /\ UNCHANGED temp_file
                 /\ conn' = EmptyDb
                 /\ existing' = EmptyDb.paths
                 /\ pc' = "pipeline"
                 /\ UNCHANGED result
            ELSE /\ pc' = "done"
                 /\ result' = "err_open"
                 /\ UNCHANGED <<final_file, temp_file, conn, existing>>
       ELSE /\ conn' = ActiveFile[1]
            /\ existing' = ActiveFile[1].paths
            /\ pc' = "pipeline"
            /\ UNCHANGED <<final_file, temp_file, result>>
    /\ temp_sidecars' = IF pc' = "pipeline" /\ ActiveIsTemp
                        THEN {"wal", "shm"}
                        ELSE temp_sidecars
    /\ UNCHANGED <<final0, use_temp, renamed>>
    /\ UNCHANGED <<envVars, optVars, walkVars, workVars, streamVars,
                   cancel_requested, diffVars, runVars>>

\* The threads run_pipeline leaves running when it returns: the walker in its
\* loop and num_threads workers receiving.
SpawnedWorkers == [w \in Workers |-> IF w <= num_threads THEN "recv" ELSE "done"]

\* run_pipeline: tuning (on a network drive the probe result is saved in the
\* connection's diskinfo table), channels, walker and workers spawned, the
\* orchestrator's entry sender dropped. The caller then enters
\* apply_index_diff_streaming.
RunPipeline ==
    /\ pc = "pipeline"
    /\ write_to_db
    /\ conn' = IF is_network THEN [conn EXCEPT !.diskinfo = TRUE] ELSE conn
    /\ walk_pc' = "iter"
    /\ w_pc' = SpawnedWorkers
    /\ pc' = "stream"
    /\ s_pc' = "recv"
    /\ UNCHANGED <<final_file, temp_file, final0, temp_sidecars, use_temp, existing,
                   result, renamed>>
    /\ UNCHANGED <<walk_pos, count, path_chan, path_count_chan, first_error, skipped_paths>>
    /\ UNCHANGED <<w_entry, entry_chan>>
    /\ UNCHANGED <<current_paths, batch, written, batch_progress, received, cancel_seen, after_cancel>>
    /\ UNCHANGED <<envVars, optVars, cancel_requested, diffVars, runVars>>

\* collect_pipeline_results: join the walker, then every worker.
CollectPipelineResults ==
    /\ pc = "stream"
    /\ write_to_db
    /\ s_pc = "ok"
    /\ walk_pc = "done"
    /\ \A w \in Workers : w_pc[w] = "done"
    /\ pc' = "check"
    /\ UNCHANGED <<result, renamed>>
    /\ UNCHANGED <<envVars, optVars, fileVars, walkVars, workVars, streamVars,
                   cancel_requested, diffVars, runVars>>

\* Variant: the recorded first error is never turned into an Err.
StrictErrorIgnored == FALSE
\* check_for_initial_error_or_skipped_paths: strict and a recorded first error.
StrictErrorRecorded == strict /\ first_error # None

\* check_for_initial_error_or_skipped_paths(...)? in nefax_dir_with_opts.
CheckStrict ==
    /\ pc = "check"
    /\ write_to_db
    /\ IF StrictErrorRecorded
       THEN /\ first_error' = None
            /\ result' = "err_strict"
            /\ pc' = "done"
       ELSE /\ pc' = "rename"
            /\ UNCHANGED <<first_error, result>>
    /\ UNCHANGED renamed
    /\ UNCHANGED <<walk_pc, walk_pos, count, path_chan, path_count_chan, skipped_paths>>
    /\ UNCHANGED <<envVars, optVars, fileVars, workVars, streamVars,
                   cancel_requested, diffVars, runVars>>

\* `if do_rename { rename_temp_to_final(..)? }`
RenameTempToFinal ==
    /\ pc = "rename"
    /\ IF use_temp
       THEN /\ final_file' = temp_file
            /\ temp_file' = NoFile
            /\ temp_sidecars' = remove_temp_wal_and_shm(temp_sidecars)
            /\ renamed' = TRUE
       ELSE UNCHANGED <<final_file, temp_file, temp_sidecars, renamed>>
    /\ pc' = "cancel"
    /\ UNCHANGED <<final0, use_temp, conn, existing, result>>
    /\ UNCHANGED <<envVars, optVars, walkVars, workVars, streamVars,
                   cancel_requested, diffVars, runVars>>

\* Variant: the flag is not looked at after the rename.
check_for_cancel_skipped == "ok"
\* check_for_cancel: Err("cancelled; partial index was flushed") when the flag is set.
check_for_cancel == IF cancel_requested THEN "err_cancelled" ELSE "ok"

\* check_for_cancel(&cancel_requested)?, then Ok((.., index_diff)).
CheckForCancel ==
    /\ pc = "cancel"
    /\ result' = check_for_cancel
    /\ pc' = "done"
    /\ UNCHANGED renamed
    /\ UNCHANGED <<envVars, optVars, fileVars, walkVars, workVars, streamVars,
                   cancel_requested, diffVars, runVars>>

(* --------------------------- initial states --------------------------- *)

\* Everything a run starts from except the environment, the options, the
\* index files and the prior snapshot.
InitRunCore ==
    /\ use_temp = TRUE
    /\ conn = EmptyDb
    /\ pc = "prepare" /\ result = "none" /\ renamed = FALSE
    /\ walk_pc = "idle" /\ walk_pos = 1 /\ count = 0
    /\ path_chan = << >> /\ path_count_chan = << >>
    /\ first_error = None /\ skipped_paths = << >>
    /\ w_pc = [w \in Workers |-> "done"]
    /\ w_entry = [w \in Workers |-> None]
    /\ entry_chan = << >>
    /\ s_pc = "idle" /\ current_paths = {} /\ batch = << >>
    /\ written = 0 /\ batch_progress = << >> /\ received = 0
    /\ cancel_requested = FALSE /\ cancel_seen = FALSE /\ after_cancel = 0
    /\ chunk = << >> /\ index_keys_not_seen = {} /\ added = << >> /\ modified = << >>
    /\ removed = << >> /\ current_index = EmptyMap
    /\ run_no = 1 /\ conn1 = EmptyDb
    /\ hash_io = {}

\* A run of the indexer: no direct function call is in progress.
InitRunState ==
    /\ InitRunCore
    /\ call = << >> /\ ret = << >> /\ fn_pc = "idle"


\* Files on disk for the write-mode runs: two modification times, one size.
IndexMetas ==
    {[mtime_ns |-> m, size |-> 10, content |-> 1, readable |-> TRUE] :
        m \in {1000, 1001}}
\* Rows of the prior index.
IndexRows == {[mtime_ns |-> 1000, size |-> 10, hash |-> None]}

\* A write-mode (CLI) run: any tree, any prior index file, a possibly stale
\* temp file, a directory that may be read-only, at most one walk error.
InitIndex ==
    /\ disk \in PartialMaps(Paths, IndexMetas)
    /\ walk_fail \in {{}} \cup {{p} : p \in DOMAIN disk}
    /\ meta_fail = {}
    /\ filtered = {}
    /\ dir_writable \in BOOLEAN
    /\ is_network \in BOOLEAN
    /\ write_to_db = TRUE /\ with_hash = FALSE /\ paranoid = FALSE
    /\ strict \in BOOLEAN
    /\ mtime_window_ns = 0
    /\ num_threads = 1 /\ channel_cap = 1
    /\ final_file \in {NoFile} \cup
          {File([paths |-> m, diskinfo |-> FALSE]) : m \in PartialMaps(Paths, IndexRows)}
    /\ temp_file \in {NoFile, File(EmptyDb)}
    /\ temp_sidecars = IF temp_file = NoFile THEN {} ELSE {"wal", "shm"}
    /\ final0 = final_file
    /\ existing = EmptyMap
    /\ InitRunState

NextIndex ==
    \/ PrepareIndexWorkPath \/ OpenDb \/ RunPipeline
    \/ WalkSend \/ WalkError \/ WalkDrained \/ WalkSendCount \/ WalkClose
    \/ \E w \in Workers : WorkerRecv(w) \/ WorkerSend(w) \/ WorkerExit(w)
    \/ StreamRecvOk \/ StreamRecvTimeout \/ StreamRecvDisconnected
    \/ StreamFlushRest \/ StreamDelete \/ StreamCheckpoint
    \/ CtrlC
    \/ CollectPipelineResults \/ CheckStrict \/ RenameTempToFinal \/ CheckForCancel

SpecIndex == InitIndex /\ [][NextIndex]_vars


(* ------------------- properties of the write-mode run ------------------ *)

\* The entry the pipeline and the hashing step produce for a path on disk.
EntryOf(p) == stream_hash(path_to_entry(p))

\* A path whose prior row is still accurate: present on disk and not in need
\* of an update.
UnchangedOnDisk(p) ==
    /\ p \in DOMAIN existing
    /\ p \in DOMAIN disk
    /\ ~entry_needs_update(EntryOf(p), existing, mtime_window_ns)

\* C1 (fails in the code). After a cancelled apply_index_diff_streaming has
\* flushed, deleted and checkpointed, every prior row of a path that is still
\* present and unchanged on disk is kept, whether or not its entry had been
\* received when the cancellation was observed.
C1_CancelKeepsUnchangedRows ==
    (s_pc = "ok" /\ cancel_seen /\ walk_fail = {}) =>
        \A p \in Paths :
            UnchangedOnDisk(p) =>
                p \in DOMAIN conn.paths /\ conn.paths[p] = existing[p]

\* C2. While the temp work file is in use and rename_temp_to_final has not
\* run, the index file has its pre-run content; what the connection wrote
\* (inserts, deletes, probe cache) is in <index>.tmp after the checkpoint.
C2_FinalUntouchedBeforeRename ==
    (use_temp /\ ~renamed) =>
        /\ final_file = final0
        /\ (s_pc = "ok" => temp_file = File(conn))

\* C2 witness: a temp-file run after its checkpoint and before the rename that
\* inserted a row, deleted a row and wrote the probe cache.
C2_Witness ==
    /\ use_temp /\ ~renamed /\ s_pc = "ok" /\ pc = "rename"
    /\ final0 # NoFile
    /\ written > 0
    /\ conn.diskinfo
    /\ \E p \in DOMAIN existing : p \notin DOMAIN conn.paths
    /\ final_file # temp_file

\* C3. In strict mode a recorded walk error is turned into an error result
\* after the join and before the rename: while it is recorded the run has not
\* reached the rename, the step that consumes it ends the run with the strict
\* error, and a run that ended so never renamed the temp file.
C3_StrictErrorNoRename ==
    /\ []( /\ (strict /\ first_error # None) =>
                  (pc \in {"stream", "check"} /\ ~renamed /\ result = "none")
           /\ (result = "err_strict") =>
                  (pc = "done" /\ ~renamed /\ (use_temp => final_file = final0)) )
    /\ [][ (strict /\ first_error # None /\ first_error' = None) =>
               (pc = "check" /\ result' = "err_strict" /\ pc' = "done") ]_vars

\* C3 witness: a strict run stopped by a walk error whose temp file holds
\* changes that never reached the index file.
C3_Witness ==
    /\ result = "err_strict" /\ pc = "done"
    /\ use_temp /\ final0 # NoFile
    /\ temp_file # final_file

\* C9 as stated (fails). A run whose streaming step observed the cancellation
\* ends with the cancelled error and with the flushed partial as the index
\* file.
C9_CancelAlwaysRenames ==
    (pc = "done" /\ cancel_seen) =>
        (result = "err_cancelled" /\ final_file = File(conn))

\* C9 amended. A run whose streaming step observed the cancellation has
\* flushed, deleted and checkpointed; it never ends Ok. Unless strict mode
\* recorded a walk error (then the strict error is returned and nothing is
\* renamed), the temp file is renamed over the index file, the index file is
\* the flushed partial, and the result is the cancelled error.
C9_CancelFlushesThenErrors ==
    (pc = "done" /\ cancel_seen) =>
        /\ s_pc = "ok"
        /\ result \in {"err_cancelled", "err_strict"}
        /\ (result = "err_strict") => (strict /\ walk_fail # {} /\ ~renamed)
        /\ (result = "err_cancelled") =>
              /\ final_file = File(conn)
              /\ use_temp => (renamed /\ temp_file = NoFile)

\* C9 witness: a cancelled temp-file run that ended with the cancelled error
\* and an index file that lacks a path present on disk.
C9_Witness ==
    /\ pc = "done" /\ cancel_seen /\ result = "err_cancelled"
    /\ renamed /\ final_file # final0
    /\ \E p \in DOMAIN disk : p \notin DOMAIN conn.paths

\* C10 (fails in the code). Once the cancel flag is set, the receive loop
\* processes at most one further entry.
C10_AtMostOneEntryAfterCancel == after_cancel <= 1


(* ----------------- library mode: diff_from_stream ---------------------- *)
(* check.rs diff_from_stream, called from index.rs                          *)
(* run_lib_pipeline_with_callback.                                          *)

\* run_lib_pipeline_with_callback up to the call of diff_from_stream:
\* run_pipeline spawns the threads; diff_from_stream starts with every key of
\* the prior snapshot not seen.
LibRunPipeline ==
    /\ pc = "prepare"
    /\ ~write_to_db
    /\ walk_pc' = "iter"
    /\ w_pc' = SpawnedWorkers
    /\ pc' = "stream"
    /\ s_pc' = "recv"
    /\ index_keys_not_seen' = DOMAIN existing
    /\ UNCHANGED <<chunk, added, modified, removed, current_index>>
    /\ UNCHANGED <<result, renamed, fileVars>>
    /\ UNCHANGED <<walk_pos, count, path_chan, path_count_chan, first_error, skipped_paths>>
    /\ UNCHANGED <<w_entry, entry_chan>>
    /\ UNCHANGED <<current_paths, batch, written, batch_progress, received, cancel_seen, after_cancel>>
    /\ UNCHANGED <<envVars, optVars, cancel_requested, runVars>>

\* One successful try_recv (or the blocking recv when the chunk is empty):
\* the entry moves from the channel to the chunk.
DiffRecv ==
    /\ s_pc = "recv"
    /\ ~write_to_db
    /\ entry_chan # << >>
    /\ Len(chunk) < DB_INSERT_BATCH_SIZE
    /\ chunk' = Append(chunk, Head(entry_chan))
    /\ entry_chan' = Tail(entry_chan)
    /\ UNCHANGED <<index_keys_not_seen, added, modified, removed, current_index>>
    /\ UNCHANGED <<w_pc, w_entry>>
    /\ UNCHANGED <<envVars, optVars, fileVars, orchVars, walkVars, streamVars,
                   cancel_requested, runVars>>

\* `for mut entry in chunk.drain(..)`: reached when try_recv found the channel
\* empty, when the chunk is full, or right after the blocking recv.
DiffDrainChunk ==
    /\ s_pc = "recv"
    /\ ~write_to_db
    /\ chunk # << >>
    /\ entry_chan = << >> \/ Len(chunk) >= DB_INSERT_BATCH_SIZE \/ Len(chunk) = 1
    /\ LET st == drain_chunk(chunk, existing,
                     [added |-> added, modified |-> modified,
                      current_index |-> current_index,
                      index_keys_not_seen |-> index_keys_not_seen])
       IN /\ added' = st.added
          /\ modified' = st.modified
          /\ current_index' = st.current_index
          /\ index_keys_not_seen' = st.index_keys_not_seen
    /\ chunk' = << >>
    /\ UNCHANGED removed
    /\ hash_io' = hash_io \cup chunk_hash_io(chunk, existing)
    /\ UNCHANGED <<envVars, optVars, fileVars, orchVars, walkVars, workVars, streamVars,
                   cancel_requested, run_no, conn1, fnVars>>

\* The blocking recv fails (empty and disconnected): the loop ends, removed is
\* collected from index_keys_not_seen and (diff, current_index) is returned.
DiffDisconnected ==
    /\ s_pc = "recv"
    /\ ~write_to_db
    /\ chunk = << >>
    /\ entry_chan = << >>
    /\ ~EntrySendersAlive
    /\ removed' \in Orderings(index_keys_not_seen)
    /\ s_pc' = "ok"
    /\ UNCHANGED <<chunk, index_keys_not_seen, added, modified, current_index>>
    /\ UNCHANGED <<current_paths, batch, written, batch_progress, received, cancel_seen, after_cancel>>
    /\ UNCHANGED <<envVars, optVars, fileVars, orchVars, walkVars, workVars,
                   cancel_requested, runVars>>

\* shutdown_pipeline_handles: join the walker and the workers.
ShutdownPipelineHandles ==
    /\ pc = "stream"
    /\ ~write_to_db
    /\ s_pc = "ok"
    /\ walk_pc = "done"
    /\ \A w \in Workers : w_pc[w] = "done"
    /\ pc' = "check"
    /\ UNCHANGED <<result, renamed>>
    /\ UNCHANGED <<envVars, optVars, fileVars, walkVars, workVars, streamVars,
                   cancel_requested, diffVars, runVars>>

\* check_for_initial_error_or_skipped_paths(..)?, then Ok((index_map, diff)).
LibCheckStrict ==
    /\ pc = "check"
    /\ ~write_to_db
    /\ IF StrictErrorRecorded
       THEN /\ first_error' = None
            /\ result' = "err_strict"
       ELSE /\ result' = "ok"
            /\ UNCHANGED first_error
    /\ pc' = "done"
    /\ UNCHANGED renamed
    /\ UNCHANGED <<walk_pc, walk_pos, count, path_chan, path_count_chan, skipped_paths>>
    /\ UNCHANGED <<envVars, optVars, fileVars, workVars, streamVars,
                   cancel_requested, diffVars, runVars>>


\* Files on disk for the library-mode runs: large enough to be hashed; the
\* modification time and the content may differ from the prior snapshot's.
LibMetas ==
    {[mtime_ns |-> 1000, size |-> SMALL_FILE_THRESHOLD, content |-> 1, readable |-> TRUE],
     [mtime_ns |-> 1001, size |-> SMALL_FILE_THRESHOLD, content |-> 1, readable |-> TRUE],
     [mtime_ns |-> 1001, size |-> SMALL_FILE_THRESHOLD, content |-> 2, readable |-> TRUE]}
\* Rows of the caller's prior snapshot.
LibRows == {[mtime_ns |-> 1000, size |-> SMALL_FILE_THRESHOLD, hash |-> Some(Blake3(1))]}

\* At most one path of the tree is special: the iterator fails on it, or it is
\* excluded by should_include_in_walk.
OneSpecialPath ==
    \/ walk_fail = {} /\ filtered = {}
    \/ \E p \in DOMAIN disk : walk_fail = {p} /\ filtered = {}
    \/ \E p \in DOMAIN disk : walk_fail = {} /\ filtered = {p}

\* A library-mode run (write_to_db = false): any tree, any prior snapshot.
InitLib ==
    /\ disk \in PartialMaps(Paths, LibMetas)
    /\ walk_fail \in SUBSET Paths
    /\ filtered \in SUBSET Paths
    /\ OneSpecialPath
    /\ meta_fail = {}
    /\ dir_writable = TRUE
    /\ is_network = FALSE
    /\ write_to_db = FALSE
    /\ with_hash \in BOOLEAN
    /\ paranoid \in BOOLEAN
    /\ paranoid => with_hash
    /\ strict \in BOOLEAN
    /\ mtime_window_ns = 0
    /\ num_threads = 1 /\ channel_cap = 1
    /\ final_file = NoFile /\ temp_file = NoFile /\ final0 = NoFile
    /\ temp_sidecars = {}
    /\ existing \in PartialMaps(Paths, LibRows)
    /\ InitRunState

NextLib ==
    \/ LibRunPipeline
    \/ WalkSend \/ WalkFiltered \/ WalkError \/ WalkDrained \/ WalkSendCount \/ WalkClose
    \/ \E w \in Workers : WorkerRecv(w) \/ WorkerSend(w) \/ WorkerExit(w)
    \/ DiffRecv \/ DiffDrainChunk \/ DiffDisconnected
    \/ ShutdownPipelineHandles \/ LibCheckStrict

SpecLib == InitLib /\ [][NextLib]_vars


(* ------------------ properties of the library-mode run ----------------- *)

\* C4. The three lists of the Diff are pairwise disjoint, at every point of
\* diff_from_stream and in the Diff it returns.
C4_DiffListsDisjoint ==
    /\ Range(added) \cap Range(modified) = {}
    /\ Range(added) \cap Range(removed) = {}
    /\ Range(modified) \cap Range(removed) = {}

\* C4 witness: a returned Diff with a modified path and a removed path.
C4_Witness ==
    /\ ~write_to_db /\ s_pc = "ok"
    /\ modified # << >> /\ removed # << >>

\* The paths the walker sends: present, not excluded, the iterator does not
\* fail on them, and in strict mode they come before the first failure.
WalkedPaths ==
    {p \in DOMAIN disk :
        /\ p \notin filtered
        /\ p \notin walk_fail
        /\ strict => \A q \in walk_fail \cap DOMAIN disk : p < q}

\* The metadata of a key of the current index differs from its prior row.
DiffersFromPrior(p) ==
    \/ mtime_changed(current_index[p].mtime_ns, existing[p].mtime_ns, mtime_window_ns)
    \/ current_index[p].size # existing[p].size
    \/ ~hash_equals(current_index[p].hash, existing[p].hash)

NoDuplicates(list) == Cardinality(Range(list)) = Len(list)

nefax_to_stored(nefax) ==
    [p \in DOMAIN nefax |->
        [mtime_ns |-> nefax[p].mtime_ns, size |-> nefax[p].size, hash |-> nefax[p].hash]]

\* The caller starts a second run on the same tree with the same options
\* after the first returned Ok: in write mode on the index file the first run
\* left, in library mode with the first run's Nefax as `existing`.
StartSecondRun ==
    /\ pc = "done"
    /\ result = "ok"
    /\ run_no = 1
    /\ run_no' = 2
    /\ conn1' = conn
    /\ hash_io' = {}
    /\ UNCHANGED fnVars
    /\ final0' = final_file
    /\ existing' = IF write_to_db THEN EmptyMap ELSE nefax_to_stored(current_index)
    /\ use_temp' = TRUE
    /\ conn' = EmptyDb
    /\ pc' = "prepare" /\ result' = "none" /\ renamed' = FALSE
    /\ walk_pc' = "idle" /\ walk_pos' = 1 /\ count' = 0
    /\ path_chan' = << >> /\ path_count_chan' = << >>
    /\ first_error' = None /\ skipped_paths' = << >>
    /\ w_pc' = [w \in Workers |-> "done"]
    /\ w_entry' = [w \in Workers |-> None]
    /\ entry_chan' = << >>
    /\ s_pc' = "idle" /\ current_paths' = {} /\ batch' = << >>
    /\ written' = 0 /\ batch_progress' = << >> /\ received' = 0
    /\ cancel_seen' = FALSE /\ after_cancel' = 0
    /\ chunk' = << >> /\ index_keys_not_seen' = {} /\ added' = << >>
    /\ modified' = << >> /\ removed' = << >> /\ current_index' = EmptyMap
    /\ UNCHANGED <<final_file, temp_file, temp_sidecars>>
    /\ UNCHANGED <<envVars, optVars, cancel_requested>>

\* Files on disk for the back-to-back runs: hashed and unhashed sizes, a file
\* that cannot be read, a modification time that differs from the prior row's.
TwiceMetas ==
    {[mtime_ns |-> 1000, size |-> SMALL_FILE_THRESHOLD, content |-> 1, readable |-> TRUE],
     [mtime_ns |-> 1001, size |-> SMALL_FILE_THRESHOLD, content |-> 1, readable |-> TRUE],
     [mtime_ns |-> 1000, size |-> SMALL_FILE_THRESHOLD, content |-> 1, readable |-> FALSE],
     [mtime_ns |-> 1000, size |-> 10, content |-> 1, readable |-> TRUE]}
\* Rows of the first run's prior index or snapshot.
TwiceRows == {[mtime_ns |-> 1000, size |-> SMALL_FILE_THRESHOLD, hash |-> Some(Blake3(1))]}
\* mtime_window_ns is an i64: the default 0 and a negative value.
TwiceWindows == {-1, 0}

\* Two runs without walk errors or cancellation, in write mode or in library
\* mode, the first from any prior index.
InitTwice ==
    /\ disk \in PartialMaps(Paths, TwiceMetas)
    /\ walk_fail = {} /\ meta_fail = {} /\ filtered = {}
    /\ dir_writable = TRUE
    /\ is_network = FALSE
    /\ write_to_db \in BOOLEAN
    /\ with_hash \in BOOLEAN
    /\ paranoid \in BOOLEAN
    /\ paranoid => (with_hash /\ ~write_to_db)
    /\ strict = FALSE
    /\ mtime_window_ns \in TwiceWindows
    /\ num_threads = 1 /\ channel_cap = 1
    /\ temp_file = NoFile
    /\ temp_sidecars = {}
    /\ \E prior \in PartialMaps(Paths, TwiceRows) :
          IF write_to_db
          THEN /\ final_file \in {NoFile, File([paths |-> prior, diskinfo |-> FALSE])}
               /\ (final_file = NoFile => prior = EmptyMap)
               /\ existing = EmptyMap
          ELSE /\ final_file = NoFile
               /\ existing = prior
    /\ final0 = final_file
    /\ InitRunState

NextTwice ==
    \/ PrepareIndexWorkPath \/ OpenDb \/ RunPipeline
    \/ LibRunPipeline
    \/ WalkSend \/ WalkDrained \/ WalkSendCount \/ WalkClose
    \/ \E w \in Workers : WorkerRecv(w) \/ WorkerSend(w) \/ WorkerExit(w)
    \/ StreamRecvOk \/ StreamRecvDisconnected
    \/ StreamFlushRest \/ StreamDelete \/ StreamCheckpoint
    \/ CollectPipelineResults \/ CheckStrict \/ RenameTempToFinal \/ CheckForCancel
    \/ DiffRecv \/ DiffDrainChunk \/ DiffDisconnected
    \/ ShutdownPipelineHandles \/ LibCheckStrict
    \/ StartSecondRun

SpecTwice == InitTwice /\ [][NextTwice]_vars


(* ------------------ properties of back-to-back runs -------------------- *)

\* The second run changed nothing: in write mode no row was written and the
\* table (so its row count) is the first run's; in library mode the Diff is
\* empty and the returned index is the prior snapshot.
SecondRunChangedNothing ==
    IF write_to_db
    THEN /\ written = 0
         /\ conn.paths = conn1.paths
         /\ Cardinality(DOMAIN conn.paths) = Cardinality(DOMAIN conn1.paths)
    ELSE /\ added = << >> /\ modified = << >> /\ removed = << >>
         /\ nefax_to_stored(current_index) = existing

NeedUpdate == {p \in current_paths : entry_needs_update(EntryOf(p), existing, mtime_window_ns)}

\* C7. When apply_index_diff_streaming returns Ok without cancellation, the
\* table's keys are the paths of the received entries; prior keys not received
\* are gone; an entry that needed an update has a row with its mtime_ns, size
\* and hash; any other entry keeps its prior row.
C7_TableAfterStreaming ==
    (write_to_db /\ s_pc = "ok" /\ ~cancel_seen) =>
        /\ current_paths = DOMAIN disk
        /\ DOMAIN conn.paths = current_paths
        /\ \A p \in DOMAIN existing \ current_paths : p \notin DOMAIN conn.paths
        /\ \A p \in current_paths :
              conn.paths[p] = IF p \in NeedUpdate THEN RowOf(EntryOf(p)) ELSE existing[p]
        /\ written = Cardinality(NeedUpdate)

\* C7 witness: a first run that deleted a prior key and replaced a prior row
\* by one with a fresh hash.
C7_Witness ==
    /\ write_to_db /\ s_pc = "ok" /\ run_no = 1
    /\ \E p \in DOMAIN existing : p \notin DOMAIN conn.paths
    /\ \E p \in DOMAIN existing \cap DOMAIN conn.paths :
          conn.paths[p] # existing[p] /\ conn.paths[p].hash # None


(* ----------------------- pipeline termination -------------------------- *)

\* One file per present path; pool size and channel capacity vary.
PipeMetas == {[mtime_ns |-> 1000, size |-> 10, content |-> 1, readable |-> TRUE]}

\* A run of the pipeline on any tree with any pool size >= 1 and any channel
\* capacity >= 1, consumed in write mode or in library mode, never cancelled.
InitPipe ==
    /\ disk \in PartialMaps(Paths, PipeMetas)
    /\ walk_fail \in SUBSET Paths
    /\ filtered \in SUBSET Paths
    /\ OneSpecialPath
    /\ meta_fail = {}
    /\ dir_writable = TRUE
    /\ is_network = FALSE
    /\ write_to_db \in BOOLEAN
    /\ with_hash = FALSE /\ paranoid = FALSE
    /\ strict \in BOOLEAN
    /\ mtime_window_ns = 0
    /\ num_threads \in 1..MaxWorkers
    /\ channel_cap \in 1..MaxCap
    /\ final_file = NoFile /\ temp_file = NoFile /\ final0 = NoFile
    /\ temp_sidecars = {}
    /\ existing = EmptyMap
    /\ InitRunState

\* The walker thread.
WalkerStep ==
    WalkSend \/ WalkFiltered \/ WalkError \/ WalkDrained \/ WalkSendCount \/ WalkClose

\* One metadata worker thread.
WorkerStep(w) == WorkerRecv(w) \/ WorkerSend(w) \/ WorkerExit(w)

\* The caller's thread: orchestrator and consumer.
CallerStep ==
    \/ PrepareIndexWorkPath \/ OpenDb \/ RunPipeline
    \/ StreamRecvOk \/ StreamRecvTimeout \/ StreamRecvDisconnected
    \/ StreamFlushRest \/ StreamDelete \/ StreamCheckpoint
    \/ CollectPipelineResults \/ CheckStrict \/ RenameTempToFinal \/ CheckForCancel
    \/ LibRunPipeline
    \/ DiffRecv \/ DiffDrainChunk \/ DiffDisconnected
    \/ ShutdownPipelineHandles \/ LibCheckStrict

NextPipe ==
    \/ WalkerStep
    \/ \E w \in Workers : WorkerStep(w)
    \/ CallerStep

\* Every thread that can take a step eventually takes one (OS scheduling).
SpecPipe ==
    /\ InitPipe
    /\ [][NextPipe]_vars
    /\ WF_vars(WalkerStep)
    /\ \A w \in Workers : WF_vars(WorkerStep(w))
    /\ WF_vars(CallerStep)

\* C8. A run on a finite tree with at least one worker and channel capacity
\* at least one, whose consumer keeps receiving, terminates: the walker and
\* every worker have exited, the consumer's loop has ended on disconnection,
\* and the caller has its result.
C8_RunTerminates ==
    <>(/\ pc = "done"
       /\ walk_pc = "done"
       /\ \A w \in Workers : w_pc[w] = "done"
       /\ s_pc = "ok")

\* C8 witness: a finished run of the largest pool over the smallest channel
\* in which every path of a full tree was received.
C8_Witness ==
    /\ pc = "done" /\ result = "ok"
    /\ num_threads = MaxWorkers /\ channel_cap = 1
    /\ DOMAIN disk = Paths
    /\ walk_fail = {} /\ filtered = {}
    /\ IF write_to_db THEN received = NumPaths ELSE DOMAIN current_index = Paths


(* ------------------- store failures and temp files --------------------- *)

\* Variant: the rows inserted before the failure stay visible.
failed_flush_keeps_rows(tbl, b, k) == flush_batch(tbl, SubSeq(b, 1, k))
\* flush_batch failing after k inserts (k = Len(b): the commit fails): the
\* Transaction is dropped uncommitted, which rolls it back.
failed_flush(tbl, b, k) == tbl

\* One iteration of the receive loop whose in-loop flush_batch fails: the `?`
\* returns the error from apply_index_diff_streaming, dropping entry_rx.
StreamRecvOkFlushFails ==
    /\ s_pc = "recv"
    /\ write_to_db
    /\ entry_chan # << >>
    /\ LET entry == stream_hash(Head(entry_chan))
           batch1 == IF entry_needs_update(entry, existing, mtime_window_ns)
                     THEN Append(batch, entry)
                     ELSE batch
       IN /\ Len(batch1) >= DB_INSERT_BATCH_SIZE
          /\ received' = received + 1
          /\ current_paths' = current_paths \cup {entry.path}
          /\ batch' = batch1
          /\ \E k \in 0..Len(batch1) :
                conn' = [conn EXCEPT !.paths = failed_flush(conn.paths, batch1, k)]
    /\ entry_chan' = << >>
    /\ s_pc' = "err"
    /\ after_cancel' = IF cancel_requested THEN after_cancel + 1 ELSE after_cancel
    /\ UNCHANGED <<written, batch_progress, cancel_seen, cancel_requested>>
    /\ UNCHANGED <<final_file, temp_file, final0, temp_sidecars, use_temp, existing>>
    /\ hash_io' = hash_io \cup stream_hash_io(Head(entry_chan))
    /\ UNCHANGED <<w_pc, w_entry>>
    /\ UNCHANGED <<envVars, optVars, orchVars, walkVars, diffVars, run_no, conn1, fnVars>>

\* The flush of the remainder after the loop fails.
StreamFlushRestFails ==
    /\ s_pc = "flush"
    /\ batch # << >>
    /\ \E k \in 0..Len(batch) :
          conn' = [conn EXCEPT !.paths = failed_flush(conn.paths, batch, k)]
    /\ entry_chan' = << >>
    /\ s_pc' = "err"
    /\ UNCHANGED <<current_paths, batch, written, batch_progress, received, cancel_seen, after_cancel,
                   cancel_requested>>
    /\ UNCHANGED <<final_file, temp_file, final0, temp_sidecars, use_temp, existing>>
    /\ UNCHANGED <<w_pc, w_entry>>
    /\ UNCHANGED <<envVars, optVars, orchVars, walkVars, diffVars, runVars>>

\* `apply_index_diff_streaming(..)?` in nefax_dir_with_opts: the error is
\* returned at once.
StreamErrorPropagates ==
    /\ pc = "stream"
    /\ s_pc = "err"
    /\ pc' = "done"
    /\ result' = "err_sql"
    /\ UNCHANGED renamed
    /\ UNCHANGED <<envVars, optVars, fileVars, walkVars, workVars, streamVars,
                   cancel_requested, diffVars, runVars>>

\* What an interrupted earlier run left at the temp path.
StaleTemp == File([paths |-> EmptyMap, diskinfo |-> TRUE])

\* A write-mode run without walk errors or cancellation, started next to
\* whatever an earlier run left: a stale temp file, WAL and SHM files, a
\* directory that may be read-only.
InitStore ==
    /\ disk \in PartialMaps(Paths, IndexMetas)
    /\ walk_fail = {} /\ meta_fail = {} /\ filtered = {}
    /\ dir_writable \in BOOLEAN
    /\ is_network = FALSE
    /\ write_to_db = TRUE /\ with_hash = FALSE /\ paranoid = FALSE
    /\ strict = FALSE
    /\ mtime_window_ns = 0
    /\ num_threads = 1 /\ channel_cap = 1
    /\ final_file \in {NoFile} \cup
          {File([paths |-> m, diskinfo |-> FALSE]) : m \in PartialMaps(Paths, IndexRows)}
    /\ temp_file \in {NoFile, StaleTemp}
    /\ temp_sidecars \in SUBSET {"wal", "shm"}
    /\ final0 = final_file
    /\ existing = EmptyMap
    /\ InitRunState

NextStore ==
    \/ PrepareIndexWorkPath \/ OpenDb \/ RunPipeline
    \/ WalkSend \/ WalkDrained \/ WalkSendCount \/ WalkClose
    \/ \E w \in Workers : WorkerRecv(w) \/ WorkerSend(w) \/ WorkerExit(w)
    \/ StreamRecvOk \/ StreamRecvDisconnected
    \/ StreamFlushRest \/ StreamDelete \/ StreamCheckpoint
    \/ StreamRecvOkFlushFails \/ StreamFlushRestFails \/ StreamErrorPropagates
    \/ CollectPipelineResults \/ CheckStrict \/ RenameTempToFinal \/ CheckForCancel

SpecStore == InitStore /\ [][NextStore]_vars

\* C11. A successful write-mode run that used the temp work file ends with no
\* <index>.tmp, <index>.tmp-wal or <index>.tmp-shm: the temp file was renamed
\* over the index file and both sidecars were removed. A stale temp file and
\* its sidecars are removed by prepare_index_work_path, before the run opens
\* (and writes) the temp database.
C11_NoTempSiblingsAfterSuccess ==
    /\ []( (pc = "done" /\ result = "ok" /\ use_temp) =>
               /\ temp_file = NoFile
               /\ temp_sidecars = {}
               /\ renamed
               /\ final_file = File(conn) )
    /\ [][ (pc = "prepare" /\ temp_file # NoFile /\ use_temp') =>
               /\ temp_sidecars' = {}
               /\ temp_file' # temp_file
               /\ temp_file' \in {NoFile, final_file} ]_vars

\* C11 witness: a successful temp-file run that wrote rows and replaced an
\* existing index file.
C11_Witness ==
    /\ pc = "done" /\ result = "ok" /\ use_temp /\ renamed
    /\ final0 # NoFile /\ final_file # final0
    /\ written > 0

\* The rows of the table that differ from the prior snapshot.
ChangedRows ==
    {p \in DOMAIN conn.paths : p \notin DOMAIN existing \/ conn.paths[p] # existing[p]}

\* C12. After a failed insert or commit the table shows only the rows of the
\* batches committed before (none of the failed batch), no prior row was
\* deleted, the database file was not checkpointed, the error is the run's
\* result, and the temp file is never renamed over the index file.
C12_FailedBatchRolledBack ==
    /\ (s_pc = "err") =>
          /\ Cardinality(ChangedRows) = written
          /\ DOMAIN existing \subseteq DOMAIN conn.paths
          /\ use_temp => /\ temp_file = (IF final0 = NoFile THEN File(EmptyDb) ELSE final0)
                         /\ final_file = final0
          /\ ~renamed
          /\ pc \in {"stream", "done"}
          /\ pc = "done" => result = "err_sql"
    /\ (result = "err_sql") => s_pc = "err"

\* C12 witness: a temp-file run ended by a failed flush of a full batch, next
\* to an existing index file.
C12_Witness ==
    /\ pc = "done" /\ result = "err_sql" /\ s_pc = "err"
    /\ use_temp /\ final0 # NoFile
    /\ Len(batch) = DB_INSERT_BATCH_SIZE


(* ------------------ direct calls of the public functions --------------- *)

\* Everything but the call in progress.
programVars == <<envVars, optVars, fileVars, orchVars, walkVars, workVars,
                 streamVars, cancel_requested, diffVars, run_no, conn1, hash_io>>

\* The outcomes of a call: the value it returns and, when the build has
\* overflow checks on and the arithmetic overflows, a panic.
Outcomes(value, overflows) ==
    {<<"returned", <<value>> >>} \cup
    (IF overflows THEN {<<"panicked", << >> >>} ELSE {})

\* mtime_changed(new_mtime, old_mtime, tolerance_ns) over i64, the extremes included.
MtimeArgs == {I64_MIN, I64_MIN + 1, -2, -1, 0, 1, 2, I64_MAX - 1, I64_MAX}
ToleranceArgs == {-1, 0, 1, 2, I64_MAX}
MtimeChangedCalls ==
    {<<"mtime_changed", n, o, t>> : n \in MtimeArgs, o \in MtimeArgs, t \in ToleranceArgs}

CallMtimeChanged ==
    /\ fn_pc = "call"
    /\ call[1] = "mtime_changed"
    /\ \E out \in Outcomes(mtime_changed(call[2], call[3], call[4]),
                           mtime_changed_overflows(call[2], call[3])) :
          /\ fn_pc' = out[1]
          /\ ret' = out[2]
    /\ UNCHANGED <<programVars, call>>

\* entry_needs_update(entry, existing, mtime_window_ns): an entry for path 1
\* against no row, a row for another path only, or a row for path 1, with the
\* modification times of files written after 1970, stored hashes of 32 bytes
\* (100 and above) and of another length (below 100).
NeedsUpdateEntries ==
    {[path |-> 1, mtime_ns |-> m, size |-> sz, hash |-> h] :
        m \in {100, 101, 102}, sz \in {10, 11}, h \in {None, Some(101), Some(102)}}
NeedsUpdateRows ==
    {[mtime_ns |-> m, size |-> sz, hash |-> h] :
        m \in {100, 101, 102}, sz \in {10, 11},
        h \in {None, Some(101), Some(102), Some(7)}}
NeedsUpdatePriors ==
    {EmptyMap} \cup {[p \in {q} |-> r] : q \in {1, 2}, r \in NeedsUpdateRows}
EntryNeedsUpdateCalls ==
    {<<"entry_needs_update", e, prior, w>> :
        e \in NeedsUpdateEntries, prior \in NeedsUpdatePriors, w \in {-1, 0, 1}}

CallEntryNeedsUpdate ==
    /\ fn_pc = "call"
    /\ call[1] = "entry_needs_update"
    /\ \E out \in Outcomes(entry_needs_update(call[2], call[3], call[4]),
                           /\ call[2].path \in DOMAIN call[3]
                           /\ mtime_changed_overflows(call[2].mtime_ns,
                                                      call[3][call[2].path].mtime_ns)) :
          /\ fn_pc' = out[1]
          /\ ret' = out[2]
    /\ UNCHANGED <<programVars, call>>

\* Strings are sequences of one-character strings.
SeqsUpTo(alphabet, n) == UNION {[1..k -> alphabet] : k \in 0..n}

\* str::strip_prefix('!').unwrap_or(pattern)
strip_prefix_bang(pattern) ==
    IF pattern # << >> /\ pattern[1] = "!" THEN Tail(pattern) ELSE pattern

\* engine/tools.rs glob_match. glob_scan is its `while let` loop from the
\* current positions of pattern_chars and text_chars; the recursive call
\* after a `*` is a call of glob_match itself, on the rest of the pattern
\* and each non-empty rest of the text.
RECURSIVE glob_match(_, _)
RECURSIVE glob_scan(_, _)
glob_scan(pattern_chars, text_chars) ==
    IF pattern_chars = << >>
    THEN text_chars = << >>
    ELSE LET p == Head(pattern_chars)
             rest == Tail(pattern_chars)
         IN  CASE p = "*" ->
                    IF rest = << >>
                    THEN TRUE
                    ELSE \E k \in 1..Len(text_chars) :
                            glob_match(rest, SubSeq(text_chars, k, Len(text_chars)))
               [] p = "?" ->
                    /\ text_chars # << >>
                    /\ glob_scan(rest, Tail(text_chars))
               [] OTHER ->
                    /\ text_chars # << >>
                    /\ Head(text_chars) = p
                    /\ glob_scan(rest, Tail(text_chars))
glob_match(pattern, text) ==
    glob_scan(strip_prefix_bang(pattern), text)

GlobPatterns == SeqsUpTo({"a", "b", "*", "?", "!"}, MaxPatternLen)
GlobTexts == SeqsUpTo({"a", "b", "!"}, MaxTextLen)
GlobMatchCalls == {<<"glob_match", p, t>> : p \in GlobPatterns, t \in GlobTexts}

CallGlobMatch ==
    /\ fn_pc = "call"
    /\ call[1] = "glob_match"
    /\ fn_pc' = "returned"
    /\ ret' = << glob_match(call[2], call[3]) >>
    /\ UNCHANGED <<programVars, call>>

\* The indexed root, canonical.
WalkRoot == <<"/", "r">>

starts_with(text, prefix) ==
    Len(text) >= Len(prefix) /\ SubSeq(text, 1, Len(prefix)) = prefix

\* engine/tools.rs path_to_db_string: to_string_lossy().replace('\\', "/")
path_to_db_string(path) ==
    [i \in 1..Len(path) |-> IF path[i] = "\\" THEN "/" ELSE path[i]]

\* engine/tools.rs path_relative_to: Path::strip_prefix(base).ok(), on Unix
\* paths without redundant separators: the base itself gives the empty path,
\* a path below the base gives what follows the separator, anything else None.
path_relative_to(path, base) ==
    IF path = base
    THEN Some(<< >>)
    ELSE IF starts_with(path, base \o <<"/">>)
         THEN Some(SubSeq(path, Len(base) + 2, Len(path)))
         ELSE None

\* pipeline/metadata.rs path_to_entry, the `path` field of the Entry:
\* PathBuf::from(path_to_db_string(&rel)) with
\* rel = path_relative_to(abs_path, root).unwrap_or(abs_path)
entry_path(abs_path, root) ==
    LET rel == path_relative_to(abs_path, root)
    IN  path_to_db_string(IF rel = None THEN abs_path ELSE rel[1])

\* Path::is_absolute on Unix: the path has a root.
is_absolute(path) == path # << >> /\ path[1] = "/"

\* A path without empty components: no leading, trailing or doubled "/".
IsCleanRelative(path) ==
    /\ path # << >>
    /\ path[1] # "/" /\ path[Len(path)] # "/"
    /\ \A i \in 1..(Len(path) - 1) : ~(path[i] = "/" /\ path[i + 1] = "/")

\* What the walker sends for the items below the root: root/<relative path>,
\* where a name may hold any character but "/" (on Unix also a backslash).
WalkedBelowRoot ==
    {WalkRoot \o <<"/">> \o rel :
        rel \in {t \in SeqsUpTo({"a", "/", "\\"}, MaxPatternLen) : IsCleanRelative(t)}}
EntryPathCalls == {<<"entry_path", abs>> : abs \in WalkedBelowRoot}
DbStringCalls ==
    {<<"path_to_db_string", t>> : t \in SeqsUpTo({"a", "/", "\\"}, MaxPatternLen)}

CallEntryPath ==
    /\ fn_pc = "call"
    /\ call[1] = "entry_path"
    /\ fn_pc' = "returned"
    /\ ret' = << entry_path(call[2], WalkRoot) >>
    /\ UNCHANGED <<programVars, call>>

\* path_to_db_string applied once, and applied to its own result.
CallPathToDbString ==
    /\ fn_pc = "call"
    /\ call[1] = "path_to_db_string"
    /\ fn_pc' = "returned"
    /\ ret' = << path_to_db_string(call[2]),
                 path_to_db_string(path_to_db_string(call[2])) >>
    /\ UNCHANGED <<programVars, call>>

\* types.rs: the plausible range of mtime_ns and the largest size, at the
\* integer width of the model: MTIME_NS_MAX is 2^62 - 1 of an i64,
\* MTIME_NS_MIN is -10^18 (i64::MIN / 9.2) and SIZE_MAX is 10^18 of a u64
\* (u64::MAX / 18.4).
MTIME_NS_MIN == -((2 ^ (IntBits - 1)) \div 9)
MTIME_NS_MAX == (2 ^ (IntBits - 2)) - 1
SIZE_MAX == (2 ^ IntBits) \div 18

\* Variant: the check for an empty path is missing.
validate_entry_allows_empty(path, meta) ==
    CASE is_absolute(path) -> <<"err", "absolute path">>
      [] meta.mtime_ns < MTIME_NS_MIN \/ meta.mtime_ns > MTIME_NS_MAX ->
            <<"err", "invalid mtime_ns">>
      [] meta.size > SIZE_MAX -> <<"err", "invalid size">>
      [] OTHER -> <<"ok">>

\* types.rs validate_nefax, the body of its loop for one (path, meta).
validate_entry(path, meta) ==
    CASE is_absolute(path) -> <<"err", "absolute path">>
      [] path = << >> -> <<"err", "empty path">>
      [] meta.mtime_ns < MTIME_NS_MIN \/ meta.mtime_ns > MTIME_NS_MAX ->
            <<"err", "invalid mtime_ns">>
      [] meta.size > SIZE_MAX -> <<"err", "invalid size">>
      [] OTHER -> <<"ok">>

\* types.rs validate_nefax. The map is given as the sequence of its items in
\* the order the HashMap iterates them; the first failing item ends the loop.
RECURSIVE validate_nefax(_)
validate_nefax(nefax) ==
    IF nefax = << >>
    THEN <<"ok">>
    ELSE LET r == validate_entry(Head(nefax).path, Head(nefax).meta)
         IN  IF r[1] = "err" THEN r ELSE validate_nefax(Tail(nefax))

\* Caller-supplied snapshots: up to NumPaths items with distinct keys; keys
\* relative, empty or absolute, mtimes and sizes at and around the limits.
ValidateItems ==
    [path : {<< >>, <<"a">>, <<"/", "a">>},
     meta : [mtime_ns : {MTIME_NS_MIN - 1, MTIME_NS_MIN, 0, MTIME_NS_MAX, MTIME_NS_MAX + 1},
             size : {0, SIZE_MAX, SIZE_MAX + 1}]]
ValidateNefaxCalls ==
    {<<"validate_nefax", n>> :
        n \in {m \in SeqsUpTo(ValidateItems, NumPaths) :
                  \A i, j \in 1..Len(m) : m[i].path = m[j].path => i = j}}

CallValidateNefax ==
    /\ fn_pc = "call"
    /\ call[1] = "validate_nefax"
    /\ fn_pc' = "returned"
    /\ ret' = validate_nefax(call[2])
    /\ UNCHANGED <<programVars, call>>

FnCalls ==
    MtimeChangedCalls \cup EntryNeedsUpdateCalls \cup GlobMatchCalls
        \cup EntryPathCalls \cup DbStringCalls \cup ValidateNefaxCalls

InitFn ==
    /\ disk = EmptyMap
    /\ walk_fail = {} /\ meta_fail = {} /\ filtered = {}
    /\ dir_writable = TRUE
    /\ is_network = FALSE
    /\ write_to_db = FALSE /\ with_hash = FALSE /\ paranoid = FALSE
    /\ strict = FALSE
    /\ mtime_window_ns = 0
    /\ num_threads = 1 /\ channel_cap = 1
    /\ final_file = NoFile /\ temp_file = NoFile /\ temp_sidecars = {}
    /\ final0 = NoFile
    /\ existing = EmptyMap
    /\ InitRunCore
    /\ call \in FnCalls
    /\ ret = << >>
    /\ fn_pc = "call"

NextFn ==
    \/ CallMtimeChanged
    \/ CallEntryNeedsUpdate
    \/ CallGlobMatch
    \/ CallEntryPath
    \/ CallPathToDbString
    \/ CallValidateNefax

SpecFn == InitFn /\ [][NextFn]_vars

\* C13: entry_needs_update is false exactly when a row for the entry's path
\* exists and its mtime is within the window of the entry's, its size is the
\* entry's and its hash equals the entry's (absent equals absent, present
\* equals present only when the bytes are equal, present never equals
\* absent); in particular it is true for a path without a row.
C13_NeedsUpdateIffNotAllEqual ==
    (call[1] = "entry_needs_update" /\ fn_pc # "call") =>
        LET entry == call[2]
            prior == call[3]
            window == call[4]
            old == prior[entry.path]
            same_hash == \/ entry.hash = None /\ old.hash = None
                         \/ /\ entry.hash # None
                            /\ old.hash # None
                            /\ entry.hash = old.hash
            unchanged == /\ entry.path \in DOMAIN prior
                         /\ Abs(entry.mtime_ns - old.mtime_ns) <= window
                         /\ entry.size = old.size
                         /\ same_hash
        IN  /\ fn_pc = "returned"
            /\ ret = << ~unchanged >>

\* An entry with a hash, one nanosecond off its row with a window of one
\* nanosecond, is reported as not needing an update.
C13_Witness ==
    /\ fn_pc = "returned"
    /\ call[1] = "entry_needs_update"
    /\ ret = << FALSE >>
    /\ call[2].hash # None
    /\ call[2].mtime_ns # call[3][1].mtime_ns
    /\ call[4] = 1

\* C14: mtime_changed(new, old, tolerance) returns TRUE iff |new - old| >
\* tolerance, for all i64 arguments, and returns the same with new and old
\* swapped.
C14_MtimeChangedIffBeyondTolerance ==
    (call[1] = "mtime_changed" /\ fn_pc # "call") =>
        /\ fn_pc = "returned"
        /\ ret = << Abs(call[2] - call[3]) > call[4] >>
        /\ ret = << mtime_changed(call[3], call[2], call[4]) >>

\* The whole of `text` matches the glob `pattern`: `*` stands for any
\* sequence of characters, the empty one included, `?` for exactly one
\* character, and every other character for itself.
RECURSIVE WholeTextMatches(_, _)
WholeTextMatches(pattern, text) ==
    IF pattern = << >>
    THEN text = << >>
    ELSE CASE Head(pattern) = "*" ->
                \E k \in 0..Len(text) :
                    WholeTextMatches(Tail(pattern), SubSeq(text, k + 1, Len(text)))
           [] Head(pattern) = "?" ->
                text # << >> /\ WholeTextMatches(Tail(pattern), Tail(text))
           [] OTHER ->
                /\ text # << >>
                /\ Head(text) = Head(pattern)
                /\ WholeTextMatches(Tail(pattern), Tail(text))


(* --------------------------- the walk filter --------------------------- *)

\* Path::file_name as a string: the characters after the last separator.
RECURSIVE file_name(_)
file_name(path) ==
    IF path = << >> \/ path[Len(path)] = "/"
    THEN << >>
    ELSE Append(file_name(SubSeq(path, 1, Len(path) - 1)), path[Len(path)])

\* The names is_os_hidden_file compares with; `match` compares whole strings,
\* so "._*" and ".Trash-*" are these very names.
OsHiddenNames ==
    {<<".", "D", "S", "_", "S", "t", "o", "r", "e">>,
     <<".", "A", "p", "p", "l", "e", "D", "o", "u", "b", "l", "e">>,
     <<".", "L", "S", "O", "v", "e", "r", "r", "i", "d", "e">>,
     <<".", "_", "*">>,
     <<"T", "h", "u", "m", "b", "s", ".", "d", "b">>,
     <<"e", "h", "t", "h", "u", "m", "b", "s", ".", "d", "b">>,
     <<"D", "e", "s", "k", "t", "o", "p", ".", "i", "n", "i">>,
     <<"$", "R", "E", "C", "Y", "C", "L", "E", ".", "B", "I", "N">>,
     <<".", "d", "i", "r", "e", "c", "t", "o", "r", "y">>,
     <<".", "T", "r", "a", "s", "h", "-", "*">>}

\* engine/tools.rs is_os_hidden_file
is_os_hidden_file(path) ==
    LET name == file_name(path)
    IN  IF name \in OsHiddenNames THEN TRUE ELSE starts_with(name, <<".", "_">>)

\* Variant: the exclude patterns are compared with the file name only.
should_include_name_only(path, root, db_canonical, temp_canonical, exclude_patterns) ==
    /\ path # root
    /\ ~(db_canonical # None /\ path = db_canonical[1])
    /\ ~(temp_canonical # None /\ path = temp_canonical[1])
    /\ ~is_os_hidden_file(path)
    /\ \A i \in 1..Len(exclude_patterns) : ~glob_match(exclude_patterns[i], file_name(path))

\* The directories above a path: what precedes each separator but the first.
Ancestors(path) ==
    {SubSeq(path, 1, i - 1) : i \in {j \in 2..Len(path) : path[j] = "/"}}

\* Variant: a path below a directory whose name matches an exclude pattern
\* is excluded with it, as if the walk were pruned there.
should_include_pruning(path, root, db_canonical, temp_canonical, exclude_patterns) ==
    /\ path # root
    /\ ~(db_canonical # None /\ path = db_canonical[1])
    /\ ~(temp_canonical # None /\ path = temp_canonical[1])
    /\ ~is_os_hidden_file(path)
    /\ \A i \in 1..Len(exclude_patterns) :
          /\ ~glob_match(exclude_patterns[i], file_name(path))
          /\ ~glob_match(exclude_patterns[i], path)
          /\ \A dir \in Ancestors(path) :
                ~glob_match(exclude_patterns[i], file_name(dir))

\* engine/tools.rs should_include_in_walk
should_include_in_walk(path, root, db_canonical, temp_canonical, exclude_patterns) ==
    IF path = root THEN FALSE
    ELSE IF db_canonical # None /\ path = db_canonical[1] THEN FALSE
    ELSE IF temp_canonical # None /\ path = temp_canonical[1] THEN FALSE
    ELSE IF is_os_hidden_file(path) THEN FALSE
    ELSE IF exclude_patterns = << >> THEN TRUE
    ELSE LET name == file_name(path)
             path_str == path
         IN  ~ \E i \in 1..Len(exclude_patterns) :
                   \/ glob_match(exclude_patterns[i], name)
                   \/ glob_match(exclude_patterns[i], path_str)

\* The index file of the root and its temp twin, canonical.
WalkDb == <<"/", "r", "/", ".", "n">>
WalkTemp == <<"/", "r", "/", ".", "n", ".", "t", "m", "p">>
\* What the directory iterator can yield: the root itself first, the index
\* file and its temp twin, hidden files, and ordinary files and directories.
WalkNames ==
    {WalkRoot, WalkDb, WalkTemp,
     <<"/", "r", "/", ".", "D", "S", "_", "S", "t", "o", "r", "e">>,
     <<"/", "r", "/", ".", "_", "y">>,
     <<"/", "r", "/", "x", ".", "l", "o", "g">>,
     <<"/", "r", "/", "y", ".", "t", "x", "t">>,
     <<"/", "r", "/", "d">>,
     <<"/", "r", "/", "d", "/", "z", ".", "l", "o", "g">>,
     <<"/", "r", "/", ".", "T", "r", "a", "s", "h", "-", "1">>}
\* The exclude lists tried (opts.exclude).
WalkExcludes ==
    {<< >>,
     <<<<"*", ".", "l", "o", "g">>>>,
     <<<<"!", "y", ".", "t", "x", "t">>>>,
     <<<<"d">>>>,
     <<<<"?", ".", "t", "x", "t">>, <<"/", "r", "/", "d", "/", "*">>>>}

\* The run in progress: call = <<"nefax_dir", names, db_canonical,
\* temp_canonical, exclude>>, where names[p] is the path string of the p-th
\* item of the walk.
RunNames == call[2]
RunDb == call[3]
RunTemp == call[4]
RunExclude == call[5]

\* A library-mode run over a tree whose paths have names, with an exclude
\* list and with the index file and its temp twin both canonicalized or both
\* missing: `filtered` holds the paths for which should_include_in_walk is false.
InitWalk ==
    /\ disk \in [Paths -> {[mtime_ns |-> 1000, size |-> 10, content |-> 1, readable |-> TRUE]}]
    /\ walk_fail = {} /\ meta_fail = {}
    /\ dir_writable = TRUE
    /\ is_network = FALSE
    /\ write_to_db = FALSE /\ with_hash = FALSE /\ paranoid = FALSE
    /\ strict = FALSE
    /\ mtime_window_ns = 0
    /\ num_threads = 1 /\ channel_cap = 1
    /\ final_file = NoFile /\ temp_file = NoFile /\ final0 = NoFile
    /\ temp_sidecars = {}
    /\ existing = EmptyMap
    /\ InitRunCore
    /\ ret = << >> /\ fn_pc = "idle"
    /\ call \in {<<"nefax_dir", names, known[1], known[2], excl>> :
                    names \in {n \in [Paths -> WalkNames] :
                                  \A p, q \in Paths : p < q => n[p] # n[q]},
                    known \in {<<None, None>>, <<Some(WalkDb), Some(WalkTemp)>>},
                    excl \in WalkExcludes}
    /\ filtered = {p \in Paths :
                      ~should_include_in_walk(RunNames[p], WalkRoot, RunDb, RunTemp,
                                              RunExclude)}

NextWalk ==
    \/ LibRunPipeline
    \/ WalkSend \/ WalkFiltered \/ WalkDrained \/ WalkSendCount \/ WalkClose
    \/ \E w \in Workers : WorkerRecv(w) \/ WorkerSend(w) \/ WorkerExit(w)
    \/ DiffRecv \/ DiffDrainChunk \/ DiffDisconnected
    \/ ShutdownPipelineHandles \/ LibCheckStrict

SpecWalk == InitWalk /\ [][NextWalk]_vars

\* The paths the walker has sent so far, wherever they are now.
SentPaths ==
    Range(path_chan)
      \cup {w_entry[w][1].path : w \in {v \in Workers : w_entry[v] # None}}
      \cup {entry_chan[i].path : i \in 1..Len(entry_chan)}
      \cup {chunk[i].path : i \in 1..Len(chunk)}
      \cup DOMAIN current_index

\* The exclusion rule: the root itself, the canonical index file, its temp
\* twin, an OS-hidden name, or a file name or full path string that one of
\* the exclude patterns matches.
ExcludedByRule(path) ==
    \/ path = WalkRoot
    \/ RunDb # None /\ path = RunDb[1]
    \/ RunTemp # None /\ path = RunTemp[1]
    \/ file_name(path) \in OsHiddenNames
    \/ starts_with(file_name(path), <<".", "_">>)
    \/ \E i \in 1..Len(RunExclude) :
          \/ WholeTextMatches(strip_prefix_bang(RunExclude[i]), file_name(path))
          \/ WholeTextMatches(strip_prefix_bang(RunExclude[i]), path)

C16_GlobMatchIsWholeTextMatch ==
    (call[1] = "glob_match" /\ fn_pc = "returned") =>
        ret = << WholeTextMatches(strip_prefix_bang(call[2]), call[3]) >>

(* ---------------- hashing across a run, a change and a re-run ---------- *)

\* The sizes around the hashing threshold, and the 10 bytes of a small file.
HashSizes == {10, SMALL_FILE_THRESHOLD - 1, SMALL_FILE_THRESHOLD, SMALL_FILE_THRESHOLD + 1}
\* A file as the first run finds it.
FirstSeen(sz) == [mtime_ns |-> 1000, size |-> sz, content |-> 1, readable |-> TRUE]
\* What can happen to it before the re-run, its size kept: touched (mtime
\* only), rewritten in place with the mtime restored (bytes only), rewritten,
\* or touched and made unreadable.
Touched(f) == [f EXCEPT !.mtime_ns = 1001]
BytesChanged(f) == [f EXCEPT !.content = 2]
Rewritten(f) == [f EXCEPT !.mtime_ns = 1001, !.content = 2]
TouchedUnreadable(f) == [f EXCEPT !.mtime_ns = 1001, !.readable = FALSE]

\* Between the two runs path 1 is changed, at most once.
ModifyFile ==
    /\ pc = "done"
    /\ result = "ok"
    /\ run_no = 1
    /\ disk[1] = FirstSeen(disk[1].size)
    /\ \E m \in {Touched(disk[1]), BytesChanged(disk[1]), Rewritten(disk[1]),
                 TouchedUnreadable(disk[1])} :
          disk' = [disk EXCEPT ![1] = m]
    /\ UNCHANGED <<walk_fail, meta_fail, filtered, dir_writable, is_network>>
    /\ UNCHANGED <<optVars, fileVars, orchVars, walkVars, workVars, streamVars,
                   cancel_requested, diffVars, runVars>>

\* A first run from no index, in write mode or in library mode, over a tree
\* that holds path 1 at any of the sizes and possibly other small files.
InitHash ==
    /\ \E S \in SUBSET (Paths \ {1}), sz \in HashSizes :
          disk = [p \in S \cup {1} |-> IF p = 1 THEN FirstSeen(sz) ELSE FirstSeen(10)]
    /\ walk_fail = {} /\ meta_fail = {} /\ filtered = {}
    /\ dir_writable = TRUE
    /\ is_network = FALSE
    /\ write_to_db \in BOOLEAN
    /\ with_hash \in BOOLEAN
    /\ paranoid \in BOOLEAN
    /\ paranoid => ~write_to_db
    /\ strict = FALSE
    /\ mtime_window_ns = 0
    /\ num_threads = 1 /\ channel_cap = 1
    /\ final_file = NoFile /\ temp_file = NoFile /\ final0 = NoFile
    /\ temp_sidecars = {}
    /\ existing = EmptyMap
    /\ InitRunState

NextHash ==
    \/ PrepareIndexWorkPath \/ OpenDb \/ RunPipeline
    \/ LibRunPipeline
    \/ WalkSend \/ WalkDrained \/ WalkSendCount \/ WalkClose
    \/ \E w \in Workers : WorkerRecv(w) \/ WorkerSend(w) \/ WorkerExit(w)
    \/ StreamRecvOk \/ StreamRecvDisconnected
    \/ StreamFlushRest \/ StreamDelete \/ StreamCheckpoint
    \/ CollectPipelineResults \/ CheckStrict \/ RenameTempToFinal \/ CheckForCancel
    \/ DiffRecv \/ DiffDrainChunk \/ DiffDisconnected
    \/ ShutdownPipelineHandles \/ LibCheckStrict
    \/ ModifyFile
    \/ StartSecondRun

SpecHash == InitHash /\ [][NextHash]_vars

\* The rows the current run has produced so far: the table being written, or
\* the Nefax being built.
ResultRows == IF write_to_db THEN conn.paths ELSE current_index
\* The consumer has handled the entry of path p in the current run.
Handled(p) == IF write_to_db THEN p \in current_paths ELSE p \in DOMAIN current_index
\* The run's consumer has returned.
Consumed == s_pc = "ok"

\* C17, as the code has it: with with_hash on a file is hashed only if its
\* size is at least 4 KiB. Files below 4 KiB are never opened for hashing
\* and keep an absent hash; a file of exactly 4096 bytes is hashed.
C17_HashedFromThreshold ==
    /\ \A p \in hash_io : with_hash /\ disk[p].size >= SMALL_FILE_THRESHOLD
    /\ \A p \in DOMAIN ResultRows :
          ResultRows[p].hash # None =>
              with_hash /\ ResultRows[p].size >= SMALL_FILE_THRESHOLD
    /\ (Consumed /\ with_hash /\ run_no = 1) =>
          \A p \in DOMAIN disk :
              disk[p].size >= SMALL_FILE_THRESHOLD =>
                  p \in hash_io /\ ResultRows[p].hash # None

\* A file of exactly 4096 bytes has been hashed next to a 10-byte file that
\* has not.
C17_Witness ==
    /\ Consumed /\ with_hash /\ run_no = 1
    /\ disk[1].size = SMALL_FILE_THRESHOLD
    /\ 1 \in hash_io
    /\ ResultRows[1].hash = Some(Blake3(1))
    /\ 2 \in DOMAIN ResultRows
    /\ ResultRows[2].hash = None

\* C17, as stated: a file is hashed only if its size is strictly greater
\* than 4 KiB, so a file of exactly 4096 bytes is not opened for hashing and
\* keeps an absent hash.
C17_HashedAboveThresholdOnly ==
    /\ \A p \in hash_io : disk[p].size > SMALL_FILE_THRESHOLD
    /\ \A p \in DOMAIN ResultRows :
          ResultRows[p].size <= SMALL_FILE_THRESHOLD => ResultRows[p].hash = None

\* C18: with with_hash on, a file whose mtime (within the window) and size
\* are those of its prior row is not opened for hashing by the second run;
\* the row's hash becomes the entry's hash and the file is classified
\* unchanged.
C18_UnchangedFileNotRehashed ==
    ( /\ run_no = 2
      /\ with_hash
      /\ Handled(1)
      /\ 1 \in DOMAIN existing
      /\ ~mtime_changed(disk[1].mtime_ns, existing[1].mtime_ns, mtime_window_ns)
      /\ disk[1].size = existing[1].size )
    => /\ 1 \notin hash_io
       /\ ResultRows[1] = existing[1]
       /\ 1 \notin Range(added) \cup Range(modified)
       /\ \A i \in 1..Len(batch) : batch[i].path # 1

\* C19: with paranoid on, a path of the prior snapshot whose mtime or size
\* differs from its row is left out of Diff.modified when the hash the run
\* recomputes for it equals the stored hash, and is in Diff.modified when the
\* recomputed hash differs or the file could not be hashed.
C19_ParanoidTrustsEqualHash ==
    ( /\ run_no = 2
      /\ ~write_to_db
      /\ paranoid
      /\ Handled(1)
      /\ 1 \in DOMAIN existing
      /\ \/ Abs(disk[1].mtime_ns - existing[1].mtime_ns) > mtime_window_ns
         \/ disk[1].size # existing[1].size )
    => LET recomputed == IF with_hash /\ disk[1].size >= SMALL_FILE_THRESHOLD
                         THEN hash_file(1)
                         ELSE None
       IN  IF recomputed # None /\ recomputed = existing[1].hash
           THEN 1 \notin Range(modified)
           ELSE 1 \in Range(modified)

\* A touched file of at least 4 KiB was hashed again, found equal to its row
\* and left out of Diff.modified.
C19_Witness ==
    /\ run_no = 2 /\ ~write_to_db /\ paranoid /\ with_hash
    /\ pc = "done" /\ result = "ok"
    /\ disk[1] = Touched(FirstSeen(SMALL_FILE_THRESHOLD))
    /\ 1 \in hash_io
    /\ modified = << >>

\* C20: after a run, the bytes of the 10-byte file are changed with mtime
\* and size kept. The re-run's Diff is empty with with_hash off and has
\* modified = [that file] with with_hash on.
C20_HashDetectsRewriteWithSameMtime ==
    ( /\ run_no = 2
      /\ ~write_to_db
      /\ pc = "done" /\ result = "ok"
      /\ disk[1] = BytesChanged(FirstSeen(10)) )
    => /\ added = << >>
       /\ removed = << >>
       /\ modified = IF with_hash THEN << 1 >> ELSE << >>


(* ------------------ trees with directories and failures ---------------- *)

\* What std::fs::metadata reports for the items of a tree: the file a.txt
\* (10 bytes, t = 1000), the empty file c.txt (t = 2000), a file of 4 KiB
\* that cannot be opened for reading (permission denied) and a directory,
\* for which the filesystem reports a size of its own (4096 on ext4) and
\* which cannot be read as a file (EISDIR).
TreeMetas ==
    {[mtime_ns |-> 1000, size |-> 10, content |-> 1, readable |-> TRUE, is_dir |-> FALSE],
     [mtime_ns |-> 1000, size |-> SMALL_FILE_THRESHOLD, content |-> 3, readable |-> FALSE,
      is_dir |-> FALSE],
     [mtime_ns |-> 2000, size |-> 0, content |-> 2, readable |-> TRUE, is_dir |-> FALSE],
     [mtime_ns |-> 2000, size |-> SMALL_FILE_THRESHOLD, content |-> 0, readable |-> FALSE,
      is_dir |-> TRUE]}

\* A run from no prior index or snapshot over any such tree, in write mode or
\* in library mode; std::fs::metadata fails for at most one walked path (a
\* dangling symlink, a file removed after the walker saw it).
InitTree ==
    /\ disk \in PartialMaps(Paths, TreeMetas)
    /\ walk_fail = {} /\ filtered = {}
    /\ meta_fail \in {{}} \cup {{p} : p \in DOMAIN disk}
    /\ dir_writable = TRUE
    /\ is_network = FALSE
    /\ write_to_db \in BOOLEAN
    /\ with_hash \in BOOLEAN
    /\ paranoid = FALSE
    /\ strict \in BOOLEAN
    /\ mtime_window_ns = 0
    /\ num_threads = 1 /\ channel_cap = 1
    /\ final_file = NoFile /\ temp_file = NoFile /\ final0 = NoFile
    /\ temp_sidecars = {}
    /\ existing = EmptyMap
    /\ InitRunState

NextTree ==
    \/ PrepareIndexWorkPath \/ OpenDb \/ RunPipeline
    \/ LibRunPipeline
    \/ WalkSend \/ WalkDrained \/ WalkSendCount \/ WalkClose
    \/ \E w \in Workers : WorkerRecv(w) \/ WorkerSend(w) \/ WorkerExit(w)
    \/ StreamRecvOk \/ StreamRecvDisconnected
    \/ StreamFlushRest \/ StreamDelete \/ StreamCheckpoint
    \/ CollectPipelineResults \/ CheckStrict \/ RenameTempToFinal \/ CheckForCancel
    \/ DiffRecv \/ DiffDrainChunk \/ DiffDisconnected
    \/ ShutdownPipelineHandles \/ LibCheckStrict

SpecTree == InitTree /\ [][NextTree]_vars

\* The files and the directories of the tree.
TreeFiles == {p \in DOMAIN disk : ~disk[p].is_dir}
TreeDirs == {p \in DOMAIN disk : disk[p].is_dir}

\* C21, as the code has it: a library-mode run with with_hash off over a
\* fresh tree, without a prior snapshot, returns a Nefax with one key for
\* every file and every directory below the root, each with the mtime on
\* disk, and a Diff whose added list holds exactly those paths, once each,
\* and whose removed and modified lists are empty.
C21_FreshTreeAllPathsAdded ==
    ( /\ ~write_to_db /\ ~with_hash /\ meta_fail = {}
      /\ pc = "done" /\ result = "ok" )
    => /\ DOMAIN current_index = TreeFiles \cup TreeDirs
       /\ \A p \in DOMAIN current_index : current_index[p].mtime_ns = disk[p].mtime_ns
       /\ Range(added) = TreeFiles \cup TreeDirs
       /\ Len(added) = Cardinality(DOMAIN disk)
       /\ removed = << >>
       /\ modified = << >>

\* A tree with a file and a directory has been indexed: both are keys.
C21_Witness ==
    /\ ~write_to_db /\ ~with_hash /\ meta_fail = {}
    /\ pc = "done" /\ result = "ok"
    /\ TreeFiles # {} /\ TreeDirs # {}
    /\ DOMAIN current_index = DOMAIN disk
    /\ Len(added) >= 2

\* C21, as stated: the keys of the Nefax and the added list are exactly the
\* files; the directory has no key.
C21_FreshTreeFilesOnly ==
    ( /\ ~write_to_db /\ ~with_hash /\ meta_fail = {}
      /\ pc = "done" /\ result = "ok" )
    => /\ DOMAIN current_index = TreeFiles
       /\ \A p \in DOMAIN current_index : current_index[p].mtime_ns = disk[p].mtime_ns
       /\ Range(added) = TreeFiles
       /\ removed = << >>
       /\ modified = << >>

\* C22: every entry emitted for a directory, and every directory row of the
\* resulting table or Nefax, has size 0 and an absent hash.
C22_DirectoriesHaveNoSizeNoHash ==
    /\ \A w \in Workers :
          (w_entry[w] # None /\ w_entry[w][1].path \in TreeDirs) =>
              w_entry[w][1].size = 0 /\ w_entry[w][1].hash = None
    /\ \A p \in DOMAIN ResultRows \cap TreeDirs :
          ResultRows[p].size = 0 /\ ResultRows[p].hash = None

\* C28: when std::fs::metadata fails for a walked path, a non-strict run
\* succeeds without that path, and a strict run returns the strict error.
C28_MetadataFailureDropsOrFails ==
    (pc = "done" /\ meta_fail # {}) =>
        IF strict
        THEN result = "err_strict"
        ELSE /\ result = "ok"
             /\ DOMAIN ResultRows = DOMAIN disk \ meta_fail


(* ------------------------- keys and their checks ----------------------- *)

HasBackslash(path) == \E i \in 1..Len(path) : path[i] = "\\"

\* C23: every path a worker puts into an Entry is relative to the root and
\* holds no backslash; path_to_db_string returns a relative forward-slash
\* string unchanged, and applying it twice gives what applying it once gives.
C23_KeysRelativeNoBackslash ==
    /\ (fn_pc = "returned" /\ call[1] = "entry_path") =>
          /\ ~is_absolute(ret[1])
          /\ ~HasBackslash(ret[1])
    /\ (fn_pc = "returned" /\ call[1] = "path_to_db_string") =>
          /\ (~HasBackslash(call[2]) /\ ~is_absolute(call[2])) => ret[1] = call[2]
          /\ ret[2] = ret[1]

\* The parts of C23 that do hold: no key holds a backslash, a key is absolute
\* only if the first name below the root begins with a backslash, and
\* path_to_db_string is the identity on forward-slash strings and idempotent.
C23_KeysRelativeUnlessLeadingBackslash ==
    /\ (fn_pc = "returned" /\ call[1] = "entry_path") =>
          /\ ~HasBackslash(ret[1])
          /\ is_absolute(ret[1]) <=> call[2][Len(WalkRoot) + 2] = "\\"
    /\ (fn_pc = "returned" /\ call[1] = "path_to_db_string") =>
          /\ ~HasBackslash(call[2]) => ret[1] = call[2]
          /\ ret[2] = ret[1]

\* C24: validate_nefax returns an error if some key is absolute or empty,
\* some mtime_ns lies outside MTIME_NS_MIN..MTIME_NS_MAX or some size exceeds
\* SIZE_MAX, returns Ok exactly when every item is within these limits, and
\* leaves the map it was given as it was.
C24_ValidateNefaxEnforcesLimits ==
    /\ [](  (fn_pc = "returned" /\ call[1] = "validate_nefax") =>
              ( ret = <<"ok">> <=>
                  \A i \in 1..Len(call[2]) :
                      /\ call[2][i].path # << >>
                      /\ call[2][i].path[1] # "/"
                      /\ call[2][i].meta.mtime_ns >= MTIME_NS_MIN
                      /\ call[2][i].meta.mtime_ns <= MTIME_NS_MAX
                      /\ call[2][i].meta.size <= SIZE_MAX ) )
    /\ [][call[1] = "validate_nefax" => call' = call]_vars

\* A snapshot of two items, the second with an empty key, has been rejected.
C24_Witness ==
    /\ fn_pc = "returned" /\ call[1] = "validate_nefax"
    /\ Len(call[2]) = 2
    /\ call[2][1].path = <<"a">>
    /\ call[2][1].meta = [mtime_ns |-> MTIME_NS_MAX, size |-> SIZE_MAX]
    /\ call[2][2].path = << >>
    /\ ret[1] = "err"


(* --------------------------- check_dir (dry run) ----------------------- *)

\* check_dir: open_db_or_detect_encrypted on the index path itself (there is
\* no temp path), then load_index. Connection::open creates a missing file
\* and apply_wal_and_schema creates its tables.
CheckDirOpenDb ==
    /\ pc = "prepare"
    /\ ~write_to_db
    /\ use_temp' = FALSE
    /\ IF final_file = NoFile
       THEN IF dir_writable
            THEN /\ final_file' = File(EmptyDb)
                 /\ conn' = EmptyDb
                 /\ existing' = EmptyDb.paths
                 /\ pc' = "pipeline"
                 /\ UNCHANGED result
            ELSE /\ pc' = "done"
                 /\ result' = "err_open"
                 /\ UNCHANGED <<final_file, conn, existing>>
       ELSE /\ conn' = final_file[1]
            /\ existing' = final_file[1].paths
            /\ pc' = "pipeline"
            /\ UNCHANGED <<final_file, result>>
    /\ UNCHANGED <<temp_file, final0, temp_sidecars, renamed>>
    /\ UNCHANGED <<envVars, optVars, walkVars, workVars, streamVars,
                   cancel_requested, diffVars, runVars>>

\* check_dir: run_pipeline with the connection of the index file (on a
\* network drive detect_optimal_workers saves its result in the diskinfo
\* table, in autocommit), then diff_from_stream_diff_only starts.
CheckDirRunPipeline ==
    /\ pc = "pipeline"
    /\ ~write_to_db
    /\ conn' = IF is_network THEN [conn EXCEPT !.diskinfo = TRUE] ELSE conn
    /\ final_file' = File(conn')
    /\ walk_pc' = "iter"
    /\ w_pc' = SpawnedWorkers
    /\ pc' = "stream"
    /\ s_pc' = "recv"
    /\ index_keys_not_seen' = DOMAIN existing
    /\ UNCHANGED <<chunk, added, modified, removed, current_index>>
    /\ UNCHANGED <<temp_file, final0, temp_sidecars, use_temp, existing, result, renamed>>
    /\ UNCHANGED <<walk_pos, count, path_chan, path_count_chan, first_error, skipped_paths>>
    /\ UNCHANGED <<w_entry, entry_chan>>
    /\ UNCHANGED <<current_paths, batch, written, batch_progress, received, cancel_seen, after_cancel>>
    /\ UNCHANGED <<envVars, optVars, cancel_requested, runVars>>

\* diff_from_stream_diff_only, `for mut entry in chunk.drain(..)`: as in
\* diff_from_stream, but no map of the current entries is built.
CheckDirDrainChunk ==
    /\ s_pc = "recv"
    /\ ~write_to_db
    /\ chunk # << >>
    /\ entry_chan = << >> \/ Len(chunk) >= DB_INSERT_BATCH_SIZE \/ Len(chunk) = 1
    /\ LET st == drain_chunk(chunk, existing,
                     [added |-> added, modified |-> modified,
                      current_index |-> current_index,
                      index_keys_not_seen |-> index_keys_not_seen])
       IN /\ added' = st.added
          /\ modified' = st.modified
          /\ index_keys_not_seen' = st.index_keys_not_seen
    /\ chunk' = << >>
    /\ UNCHANGED <<removed, current_index>>
    /\ hash_io' = hash_io \cup chunk_hash_io(chunk, existing)
    /\ UNCHANGED <<envVars, optVars, fileVars, orchVars, walkVars, workVars, streamVars,
                   cancel_requested, run_no, conn1, fnVars>>

\* A dry run of the CLI: any tree, an index file with any rows or none at
\* all, a directory that may be read-only, a local or a network drive.
InitCheck ==
    /\ disk \in PartialMaps(Paths, IndexMetas)
    /\ walk_fail \in {{}} \cup {{p} : p \in DOMAIN disk}
    /\ meta_fail = {}
    /\ filtered = {}
    /\ dir_writable \in BOOLEAN
    /\ is_network \in BOOLEAN
    /\ write_to_db = FALSE /\ with_hash = FALSE /\ paranoid = FALSE
    /\ strict \in BOOLEAN
    /\ mtime_window_ns = 0
    /\ num_threads = 1 /\ channel_cap = 1
    /\ final_file \in {NoFile} \cup
           {File([paths |-> m, diskinfo |-> d]) :
               m \in PartialMaps(Paths, IndexRows), d \in BOOLEAN}
    /\ final0 = final_file
    /\ temp_file = NoFile
    /\ temp_sidecars = {}
    /\ existing = EmptyMap
    /\ InitRunState

NextCheck ==
    \/ CheckDirOpenDb \/ CheckDirRunPipeline
    \/ WalkSend \/ WalkError \/ WalkDrained \/ WalkSendCount \/ WalkClose
    \/ \E w \in Workers : WorkerRecv(w) \/ WorkerSend(w) \/ WorkerExit(w)
    \/ DiffRecv \/ CheckDirDrainChunk \/ DiffDisconnected
    \/ ShutdownPipelineHandles \/ LibCheckStrict

SpecCheck == InitCheck /\ [][NextCheck]_vars

\* C25: a dry run leaves the index file as it found it: it exists after the
\* run exactly if it existed before, and its tables hold what they held.
C25_DryRunWritesNothing ==
    pc = "done" => final_file = final0

\* What of C25 does hold: a dry run never changes the rows of the paths
\* table of an index file that existed, and never creates a temp file.
C25_DryRunKeepsPathRows ==
    /\ temp_file = NoFile
    /\ final0 # NoFile => final_file # NoFile /\ final_file[1].paths = final0[1].paths
    /\ final0 = NoFile /\ final_file # NoFile => final_file[1].paths = EmptyMap


(* --------------------- order and batches of the writes ----------------- *)

\* A step of the connection that inserts or replaces a row of the paths
\* table, and one that deletes a row.
RowsInserted ==
    \E q \in DOMAIN conn'.paths : q \notin DOMAIN conn.paths \/ conn'.paths[q] # conn.paths[q]
RowsDeleted == DOMAIN conn.paths \ DOMAIN conn'.paths # {}

\* One step of the run while apply_index_diff_streaming is at work: rows are
\* inserted only by the receive loop and the flush of the remainder, rows are
\* deleted only by the deletion pass, the checkpoint follows it and writes
\* the table as the deletion pass left it.
StreamStepInOrder ==
    s_pc \in {"recv", "flush", "delete", "checkpoint"} =>
        /\ RowsInserted => s_pc \in {"recv", "flush"}
        /\ RowsDeleted => s_pc = "delete" /\ s_pc' = "checkpoint"
        /\ s_pc' # s_pc =>
              <<s_pc, s_pc'>> \in {<<"recv", "flush">>, <<"flush", "delete">>,
                                   <<"delete", "checkpoint">>, <<"checkpoint", "ok">>}
        /\ s_pc = "checkpoint" =>
              /\ conn' = conn
              /\ s_pc' = "ok" => ActiveFile' = File(conn)
        /\ (final_file' # final_file \/ temp_file' # temp_file) => s_pc = "checkpoint"

\* C26: in apply_index_diff_streaming every batch, the full ones and the
\* remainder, is committed when the deletion pass starts (the table holds the
\* row of each entry counted in written, and no prior row is gone yet), no
\* row is inserted after a delete, and the checkpoint comes after the
\* deletion pass. Cancelled runs are included.
C26_InsertsThenDeletesThenCheckpoint ==
    /\ [](s_pc = "delete" =>
            /\ \A i \in 1..Len(batch) : /\ batch[i].path \in DOMAIN conn.paths
                                         /\ conn.paths[batch[i].path] = RowOf(batch[i])
            /\ Cardinality(ChangedRows) = written
            /\ DOMAIN existing \subseteq DOMAIN conn.paths)
    /\ [][StreamStepInOrder]_vars

\* A cancelled run has flushed a remainder, deleted a prior row and
\* checkpointed.
C26_Witness ==
    /\ s_pc = "ok" /\ cancel_seen
    /\ written > 0
    /\ DOMAIN existing \ DOMAIN conn.paths # {}
    /\ ActiveFile = File(conn)

RECURSIVE SumSeq(_)
SumSeq(q) == IF q = << >> THEN 0 ELSE Head(q) + SumSeq(Tail(q))

HashFails == {p \in TreeFiles : disk[p].size >= SMALL_FILE_THRESHOLD /\ ~disk[p].readable}

\* C29: when hash_file fails for a file of at least 4 KiB, a non-strict run
\* succeeds and the file's entry keeps an absent hash, and a strict run
\* returns an error.
C29_HashFailureDropsOrFails ==
    (pc = "done" /\ with_hash /\ meta_fail = {} /\ HashFails # {}) =>
        IF strict
        THEN result # "ok"
        ELSE /\ result = "ok"
             /\ \A p \in HashFails : p \in DOMAIN ResultRows /\ ResultRows[p].hash = None


(* ------------------------------ walk errors ---------------------------- *)

\* A library-mode run over a tree on which the directory iterator fails for
\* any number of items, strict or not; some items may be excluded.
InitSkip ==
    /\ disk \in PartialMaps(Paths, PipeMetas)
    /\ walk_fail \in SUBSET DOMAIN disk
    /\ filtered \in SUBSET DOMAIN disk
    /\ meta_fail = {}
    /\ dir_writable = TRUE
    /\ is_network = FALSE
    /\ write_to_db = FALSE /\ with_hash = FALSE /\ paranoid = FALSE
    /\ strict \in BOOLEAN
    /\ mtime_window_ns = 0
    /\ num_threads = 1 /\ channel_cap = 1
    /\ final_file = NoFile /\ temp_file = NoFile /\ final0 = NoFile
    /\ temp_sidecars = {}
    /\ existing = EmptyMap
    /\ InitRunState

SpecSkip == InitSkip /\ [][NextLib]_vars

FailsWalk(p) == p \in walk_fail
\* The items the walker has gone past, and the first item the iterator fails on.
WalkedPast == SubSeq(WalkItems, 1, walk_pos - 1)
FirstWalkFailure ==
    WalkItems[CHOOSE i \in 1..Len(WalkItems) :
                 /\ FailsWalk(WalkItems[i])
                 /\ \A j \in 1..(i - 1) : ~FailsWalk(WalkItems[j])]

\* A step of a run whose walker has recorded a strict error: the recorded
\* error is not replaced by another one (the final check may take it), and no
\* path is sent or counted any more.
NoSendAfterStrictError ==
    first_error # None =>
        /\ first_error' \in {first_error, None}
        /\ Len(path_chan') <= Len(path_chan)
        /\ count' = count

\* C30: in strict mode the walker records the first error of the iterator,
\* which is never replaced, and sends no path after it; in non-strict mode
\* it appends one record to the skipped ledger for each error, in the order
\* of the errors, goes on with the next item, and the run ends with Ok.
C30_WalkErrorRecordedOrSkipped ==
    /\ [](IF strict
          THEN /\ skipped_paths = << >>
               /\ first_error # None =>
                     /\ first_error = Some(FirstWalkFailure)
                     /\ walk_pc # "iter"
                     /\ WalkItems[walk_pos] = FirstWalkFailure
          ELSE /\ first_error = None
               /\ skipped_paths = SelectSeq(WalkedPast, FailsWalk)
               /\ pc = "done" =>
                     /\ result = "ok"
                     /\ Len(skipped_paths) = Cardinality(walk_fail)
                     /\ DOMAIN current_index = DOMAIN disk \ (walk_fail \cup filtered))
    /\ [][NoSendAfterStrictError]_vars

\* A strict run sent its first path, met an error on the second and failed.
C30_Witness ==
    /\ strict /\ pc = "done" /\ result = "err_strict"
    /\ count = 1
    /\ walk_pos = 2
    /\ skipped_paths = << >>


(* ---------------------------- the count channel ------------------------ *)

\* An item the walker sends when it reaches it: no error, not filtered out.
Sendable(p) == p \notin walk_fail /\ p \notin filtered

\* A step of the pipeline seen from the path channel: a path is appended only
\* by the walker in its loop, counted in the same step, and the count changes
\* in no other way; the count channel changes only by the one send after the
\* loop, and the path channel is closed after it.
PathSendsCounted ==
    /\ Len(path_chan') > Len(path_chan) =>
          /\ walk_pc = "iter" /\ walk_pc' = "iter"
          /\ count' = count + 1
          /\ path_count_chan = << >>
    /\ count' # count => /\ path_chan' = Append(path_chan, WalkItems[walk_pos])
                         /\ count' = count + 1
    /\ path_count_chan' # path_count_chan =>
          /\ walk_pc = "count" /\ walk_pc' = "close"
          /\ path_count_chan = << >>
          /\ path_count_chan' = <<count>>
    /\ (walk_pc' = "done" /\ walk_pc # "done") => walk_pc = "close"

\* C31: the walker hands exactly one value to the single-slot count channel,
\* when the slot is free, after its last path send and before it drops the
\* path sender; the value is the number of paths it sent, which leaves out
\* the items filtered out, the items the iterator failed on and a path whose
\* send failed.
C31_CountSentOnceAfterPaths ==
    /\ [](/\ Len(path_count_chan) <= 1
          /\ count = Len(SelectSeq(WalkedPast, Sendable))
          /\ walk_pc \in {"idle", "iter", "count"} => path_count_chan = << >>
          /\ walk_pc \in {"close", "done"} => path_count_chan = <<count>>)
    /\ [][PathSendsCounted]_vars

\* The walker has finished a tree of two items, one of them filtered out, and
\* sent the count 1.
C31_Witness ==
    /\ walk_pc = "done"
    /\ Len(WalkItems) = 2
    /\ filtered # {} /\ walk_fail = {}
    /\ path_count_chan = <<1>>


(* ------------------------- cancelled pipelines ------------------------- *)

\* A write-mode run on any tree with any pool size and channel capacity,
\* during which Ctrl+C may arrive at any moment.
InitCancel ==
    /\ disk \in PartialMaps(Paths, PipeMetas)
    /\ walk_fail = {} /\ filtered = {} /\ meta_fail = {}
    /\ dir_writable = TRUE
    /\ is_network = FALSE
    /\ write_to_db = TRUE
    /\ with_hash = FALSE /\ paranoid = FALSE
    /\ strict = FALSE
    /\ mtime_window_ns = 0
    /\ num_threads \in 1..MaxWorkers
    /\ channel_cap \in 1..MaxCap
    /\ final_file = NoFile /\ temp_file = NoFile /\ final0 = NoFile
    /\ temp_sidecars = {}
    /\ existing = EmptyMap
    /\ InitRunState

NextCancel ==
    \/ WalkSend \/ WalkDrained \/ WalkSendCount \/ WalkClose
    \/ \E w \in Workers : WorkerStep(w)
    \/ PrepareIndexWorkPath \/ OpenDb \/ RunPipeline
    \/ StreamRecvOk \/ StreamRecvTimeout \/ StreamRecvDisconnected
    \/ StreamFlushRest \/ StreamDelete \/ StreamCheckpoint
    \/ CollectPipelineResults \/ CheckStrict \/ RenameTempToFinal \/ CheckForCancel
    \/ CtrlC

\* Every thread that can take a step eventually takes one; Ctrl+C may or may
\* not come.
SpecCancel ==
    /\ InitCancel
    /\ [][NextCancel]_vars
    /\ WF_vars(WalkerStep)
    /\ \A w \in Workers : WF_vars(WorkerStep(w))
    /\ WF_vars(CallerStep)

\* A step taken after the consumer returned: nothing enters the entry channel
\* any more, and a worker that was sending goes back to receiving paths.
SendOnClosedChannelIgnored ==
    ~EntryReceiverAlive =>
        /\ entry_chan' = << >>
        /\ \A w \in Workers :
              (w_pc[w] = "send" /\ w_pc'[w] # "send") =>
                  w_pc'[w] = "recv" /\ w_entry'[w] = None

\* C32: once the consumer has left its loop on cancellation and dropped the
\* entry receiver, a worker's send fails and is ignored, and the walker and
\* every worker terminate, so that the joins return and the run ends.
C32_CancelledPipelineDrains ==
    /\ [][SendOnClosedChannelIgnored]_vars
    /\ (cancel_seen /\ s_pc = "ok") ~>
          (/\ walk_pc = "done"
           /\ \A w \in Workers : w_pc[w] = "done"
           /\ path_chan = << >>
           /\ pc = "done")

\* The consumer left on cancellation while the walker was still in its loop
\* and a worker held an entry to send.
C32_Witness ==
    /\ cancel_seen /\ s_pc = "ok"
    /\ walk_pc = "iter"
    /\ \E w \in Workers : w_pc[w] = "send"

\* ---------------------------------------------------------------------
\* Pipeline tuning: worker count and walker choice by drive type
\* (disk_detect/mod.rs, disk_detect/probe.rs, utils/fd_limit.rs).

\* The largest number of threads the thread pool reports, the largest soft
\* limit on open files and the number of runs on one root that are explored.
MaxAvailable == 6
MaxNofile == 160
MaxRuns == 3

\* utils/config.rs WorkerThreadLimits
HDD_THREADS == 4
FLOOR_THREADS == 2
UNKNOWN_MAX_THREADS == 8
NETWORK_MAX_THREADS == 12

\* disk_detect/probe.rs ProbeConsts; latencies are whole milliseconds and
\* IOPS whole operations per second here.
IOPS_HDD_THRESHOLD == 150
LATENCY_HIGH_MS == 10
LATENCY_MED_MS == 5

\* utils/fd_limit.rs
FDS_PER_WORKER == 10

DriveTypes == {"SSD", "HDD", "Network", "Unknown"}

\* The strings probe_disk_type stores as DiskTypeInfo.drive_type.
NETWORK_HDD == <<"N", "e", "t", "w", "o", "r", "k", "+", "H", "D", "D">>
NETWORK_SSD == <<"N", "e", "t", "w", "o", "r", "k", "+", "S", "S", "D">>

\* str::contains
contains(s, sub) ==
    \E i \in 1..(Len(s) - Len(sub) + 1) : SubSeq(s, i, i + Len(sub) - 1) = sub

\* usize::min, usize::saturating_sub
min(a, b) == IF a < b THEN a ELSE b
saturating_sub(a, b) == IF a > b THEN a - b ELSE 0

\* disk_detect/mod.rs DriveType::from_disk_type_str
from_disk_type_str(s) ==
    IF contains(s, <<"H", "D", "D">>)
    THEN "HDD"
    ELSE IF contains(s, <<"S", "S", "D">>) THEN "SSD" ELSE "Unknown"

\* Variant: the latency thresholds are inclusive.
calculate_workers_inclusive(disk_type, network) ==
    LET is_hdd == from_disk_type_str(disk_type.drive_type) = "HDD"
        l == network.latency_ms
    IN  CASE is_hdd /\ l >= LATENCY_HIGH_MS -> FLOOR_THREADS
          [] is_hdd /\ l >= LATENCY_MED_MS -> saturating_sub(HDD_THREADS, 1)
          [] is_hdd -> HDD_THREADS
          [] ~is_hdd /\ l >= LATENCY_HIGH_MS -> HDD_THREADS
          [] ~is_hdd /\ l >= LATENCY_MED_MS -> UNKNOWN_MAX_THREADS
          [] OTHER -> NETWORK_MAX_THREADS

\* disk_detect/probe.rs calculate_workers: the arms of the match in order.
calculate_workers(disk_type, network) ==
    LET is_hdd == from_disk_type_str(disk_type.drive_type) = "HDD"
        l == network.latency_ms
    IN  IF is_hdd /\ l > LATENCY_HIGH_MS THEN FLOOR_THREADS
        ELSE IF is_hdd /\ l > LATENCY_MED_MS THEN saturating_sub(HDD_THREADS, 1)
        ELSE IF is_hdd THEN HDD_THREADS
        ELSE IF l > LATENCY_HIGH_MS THEN HDD_THREADS
        ELSE IF l > LATENCY_MED_MS THEN UNKNOWN_MAX_THREADS
        ELSE NETWORK_MAX_THREADS

\* disk_detect/probe.rs probe_disk_type. `probe` is None when creating or
\* using the probe directory fails, else Some(iops) with the measured rate.
probe_disk_type(probe, now) ==
    IF probe = None
    THEN None
    ELSE Some([drive_type |-> IF probe[1] < IOPS_HDD_THRESHOLD
                              THEN NETWORK_HDD ELSE NETWORK_SSD,
               random_iops |-> probe[1],
               tested_at |-> now])

\* disk_detect/probe.rs measure_network_latency. `latency` is None when a
\* stat of the root fails, else Some(average milliseconds).
measure_network_latency(latency, now) ==
    IF latency = None
    THEN None
    ELSE Some([latency_ms |-> latency[1], measured_at |-> now])

\* The outcome of detect_optimal_workers on a network root: its result, the
\* diskinfo row it leaves, and whether the IOPS probe ran.
DetectOutcome(res, row, ran) ==
    [result |-> res, cache |-> row, probed |-> ran]

\* Variant: the disk type is probed on every run, cached or not.
detect_optimal_workers_reprobing(cache, probe, latency, save_ok, now) ==
    LET disk_type_info == probe_disk_type(probe, now)
        network_info == measure_network_latency(latency, now)
    IN  IF disk_type_info = None \/ network_info = None
        THEN DetectOutcome(<<"err">>, cache, TRUE)
        ELSE LET workers == calculate_workers(disk_type_info[1], network_info[1])
                 use_parallel_walk ==
                     contains(disk_type_info[1].drive_type, <<"S", "S", "D">>)
                 cache_data == [disk_type |-> disk_type_info[1],
                                network |-> network_info,
                                recommended_workers |-> workers]
             IN  IF save_ok
                 THEN DetectOutcome(<<"ok", workers, use_parallel_walk>>,
                                    Some(cache_data), TRUE)
                 ELSE DetectOutcome(<<"err">>, cache, TRUE)

\* disk_detect/probe.rs detect_optimal_workers for a network root. `cache`
\* is what load_cache_from_db finds for the root: None, or Some(DiskInfo) as
\* an earlier run saved it. `save_ok` tells whether save_cache_to_db succeeds.
\* Each `?` returns the error and leaves the row as it was.
detect_optimal_workers(cache, probe, latency, save_ok, now) ==
    LET disk_info == cache
        probed == disk_info = None
        disk_type_info ==
            IF disk_info # None
            THEN Some(disk_info[1].disk_type)
            ELSE probe_disk_type(probe, now)
        network_info == measure_network_latency(latency, now)
    IN  IF disk_type_info = None
        THEN DetectOutcome(<<"err">>, cache, probed)
        ELSE IF network_info = None
        THEN DetectOutcome(<<"err">>, cache, probed)
        ELSE LET workers == calculate_workers(disk_type_info[1], network_info[1])
                 use_parallel_walk ==
                     contains(disk_type_info[1].drive_type, <<"S", "S", "D">>)
                 cache_data == [disk_type |-> disk_type_info[1],
                                network |-> network_info,
                                recommended_workers |-> workers]
             IN  IF save_ok
                 THEN DetectOutcome(<<"ok", workers, use_parallel_walk>>,
                                    Some(cache_data), probed)
                 ELSE DetectOutcome(<<"err">>, cache, probed)

\* Variant: the thread count of every drive type comes from
\* DriveType::worker_threads.
determine_threads_by_worker_threads(drive_type, available_threads, probe_result) ==
    CASE drive_type = "SSD" -> <<available_threads, "SSD", TRUE>>
      [] drive_type = "HDD" -> <<min(available_threads, HDD_THREADS), "HDD", FALSE>>
      [] drive_type = "Network" -> <<FLOOR_THREADS, "Network", FALSE>>
      [] OTHER -> <<min(available_threads, UNKNOWN_MAX_THREADS), "Unknown", FALSE>>

\* disk_detect/mod.rs determine_threads_for_drive up to the file-descriptor
\* cap, without a thread override: (num_threads, drive_type,
\* use_parallel_walk). `probe_result` is the result of
\* detect_optimal_workers, used for a network root only.
determine_threads_for_drive(drive_type, available_threads, probe_result) ==
    CASE drive_type = "SSD" -> <<available_threads, drive_type, TRUE>>
      [] drive_type = "HDD" ->
            <<min(available_threads, HDD_THREADS), drive_type, FALSE>>
      [] drive_type = "Network" ->
            IF probe_result[1] = "ok"
            THEN <<probe_result[2], drive_type, probe_result[3]>>
            ELSE <<available_threads, drive_type, FALSE>>
      [] OTHER -> <<min(available_threads, FLOOR_THREADS), drive_type, FALSE>>

\* Variant: a soft limit too small for one worker gives a cap of zero.
max_workers_by_fd_limit_unfloored(limit) ==
    IF limit = None
    THEN None
    ELSE Some(((limit[1] * 8) \div 10) \div FDS_PER_WORKER)

\* utils/fd_limit.rs max_workers_by_fd_limit. `limit` is what max_open_fds
\* returns: None without a usable soft limit, else Some(soft limit). The
\* product with 0.8 truncated to usize is the integer part of limit * 8 / 10.
max_workers_by_fd_limit(limit) ==
    IF limit = None
    THEN None
    ELSE LET usable == (limit[1] * 8) \div 10
         IN  IF usable < FDS_PER_WORKER
             THEN Some(1)
             ELSE Some(usable \div FDS_PER_WORKER)

\* engine/core.rs run_pipeline: the cap applies when it is below the
\* selected count.
cap_threads_by_fd_limit(selected, limit) ==
    LET fd_cap == max_workers_by_fd_limit(limit)
    IN  IF fd_cap # None /\ fd_cap[1] < selected
        THEN fd_cap[1]
        ELSE selected

\* Inputs of the tuning functions.
AvailableThreads == 1..MaxAvailable
ProbeOutcomes == {None} \cup {Some(i) : i \in {IOPS_HDD_THRESHOLD - 1, IOPS_HDD_THRESHOLD}}
LatencyOutcomes ==
    {None} \cup {Some(l) : l \in {0, LATENCY_MED_MS, LATENCY_MED_MS + 1,
                                   LATENCY_HIGH_MS, LATENCY_HIGH_MS + 1}}
SoftLimits == {None} \cup {Some(l) : l \in 0..MaxNofile}

\* What a first run of detect_optimal_workers on a network root can return.
ProbeResults ==
    {detect_optimal_workers(None, p, l, ok, 1).result :
        p \in ProbeOutcomes, l \in LatencyOutcomes, ok \in BOOLEAN}

DetermineThreadsCalls ==
    {<<"determine_threads_for_drive", d, a, r>> :
        d \in DriveTypes, a \in AvailableThreads, r \in ProbeResults}

\* The counts determine_threads_for_drive selects.
SelectedThreads ==
    {determine_threads_for_drive(c[2], c[3], c[4])[1] : c \in DetermineThreadsCalls}

CapThreadsCalls ==
    {<<"cap_threads_by_fd_limit", n, l>> : n \in SelectedThreads, l \in SoftLimits}

\* The first run on a network root finds no diskinfo row.
FirstDetectCalls ==
    {<<"detect_optimal_workers", None, p, l, ok, 1>> :
        p \in ProbeOutcomes, l \in LatencyOutcomes, ok \in BOOLEAN}

CallDetermineThreads ==
    /\ fn_pc = "call"
    /\ call[1] = "determine_threads_for_drive"
    /\ fn_pc' = "returned"
    /\ ret' = determine_threads_for_drive(call[2], call[3], call[4])
    /\ UNCHANGED <<programVars, call>>

CallCapThreads ==
    /\ fn_pc = "call"
    /\ call[1] = "cap_threads_by_fd_limit"
    /\ fn_pc' = "returned"
    /\ ret' = << cap_threads_by_fd_limit(call[2], call[3]) >>
    /\ UNCHANGED <<programVars, call>>

CallDetectOptimalWorkers ==
    /\ fn_pc = "call"
    /\ call[1] = "detect_optimal_workers"
    /\ fn_pc' = "returned"
    /\ ret' = detect_optimal_workers(call[2], call[3], call[4], call[5], call[6])
    /\ UNCHANGED <<programVars, call>>

\* The next run on the same root: it finds the row the run before left and
\* meets its own probe, latency and save outcomes, at a later time.
NextRunOnSameRoot ==
    /\ fn_pc = "returned"
    /\ call[1] = "detect_optimal_workers"
    /\ call[6] < MaxRuns
    /\ \E p \in ProbeOutcomes, l \in LatencyOutcomes, ok \in BOOLEAN :
          call' = <<"detect_optimal_workers", ret.cache, p, l, ok, call[6] + 1>>
    /\ fn_pc' = "call"
    /\ ret' = << >>
    /\ UNCHANGED programVars

InitTune ==
    /\ disk = EmptyMap
    /\ walk_fail = {} /\ meta_fail = {} /\ filtered = {}
    /\ dir_writable = TRUE
    /\ is_network = FALSE
    /\ write_to_db = FALSE /\ with_hash = FALSE /\ paranoid = FALSE
    /\ strict = FALSE
    /\ mtime_window_ns = 0
    /\ num_threads = 1 /\ channel_cap = 1
    /\ final_file = NoFile /\ temp_file = NoFile /\ temp_sidecars = {}
    /\ final0 = NoFile
    /\ existing = EmptyMap
    /\ InitRunCore
    /\ call \in DetermineThreadsCalls \cup CapThreadsCalls \cup FirstDetectCalls
    /\ ret = << >>
    /\ fn_pc = "call"

NextTune ==
    \/ CallDetermineThreads
    \/ CallCapThreads
    \/ CallDetectOptimalWorkers
    \/ NextRunOnSameRoot

SpecTune == InitTune /\ [][NextTune]_vars

\* A returned call of the named tuning function.
Returned(name) == fn_pc = "returned" /\ call[1] = name

\* C33: before the file-descriptor cap, an SSD gets every available thread
\* and the parallel walker, an HDD min(available, 4) threads and the serial
\* walker, an unknown drive min(available, 2) threads and the serial walker,
\* and a network drive whatever the probe returned.
C33_ThreadsByDriveType ==
    Returned("determine_threads_for_drive") =>
        LET drive_type == call[2]
            available == call[3]
            probe_result == call[4]
        IN  /\ ret[2] = drive_type
            /\ drive_type = "SSD" => ret[1] = available /\ ret[3] = TRUE
            /\ drive_type = "HDD" =>
                  /\ ret[1] = (IF available < 4 THEN available ELSE 4)
                  /\ ret[3] = FALSE
            /\ drive_type = "Unknown" =>
                  /\ ret[1] = (IF available < 2 THEN available ELSE 2)
                  /\ ret[3] = FALSE
            /\ (drive_type = "Network" /\ probe_result[1] = "ok") =>
                  ret[1] = probe_result[2] /\ ret[3] = probe_result[3]

\* An unknown drive with more than two available threads got two.
C33_Witness ==
    /\ Returned("determine_threads_for_drive")
    /\ call[2] = "Unknown" /\ call[3] = MaxAvailable
    /\ ret = <<2, "Unknown", FALSE>>

\* C34: on a network drive the worker count follows the matrix on (is_hdd,
\* latency): HDD above 10 ms gives 2, HDD above 5 ms gives 3, HDD otherwise 4,
\* non-HDD above 10 ms gives 4, non-HDD above 5 ms gives 8, non-HDD otherwise
\* 12, where exactly 10 ms and 5 ms fall in the lower row; the parallel
\* walker is chosen only when the disk type of the cache row is Network+SSD.
C34_NetworkWorkersFollowMatrix ==
    (Returned("detect_optimal_workers") /\ ret.result[1] = "ok") =>
        LET row == ret.cache[1]
            is_hdd == row.disk_type.drive_type = NETWORK_HDD
            l == call[4][1]
            workers == ret.result[2]
        IN  /\ (is_hdd /\ l > 10) => workers = 2
            /\ (is_hdd /\ l > 5 /\ l <= 10) => workers = 3
            /\ (is_hdd /\ l <= 5) => workers = 4
            /\ (~is_hdd /\ l > 10) => workers = 4
            /\ (~is_hdd /\ l > 5 /\ l <= 10) => workers = 8
            /\ (~is_hdd /\ l <= 5) => workers = 12
            /\ ret.result[3] = TRUE => row.disk_type.drive_type = NETWORK_SSD

\* A later run found a Network+HDD row, measured exactly 10 ms and chose 3
\* workers and the serial walker.
C34_Witness ==
    /\ Returned("detect_optimal_workers")
    /\ call[2] # None /\ call[2][1].disk_type.drive_type = NETWORK_HDD
    /\ call[4] = Some(10)
    /\ ret.result = <<"ok", 3, FALSE>>

\* C35: the worker count the pipeline uses is the smaller of the selected
\* count and floor(soft limit * 0.8 / 10), a cap that is never below 1 (a
\* usable budget under 10 descriptors gives 1); without a usable limit the
\* selected count is used as it is; and as every selected count is at least
\* 1, at least one worker is spawned.
C35_WorkersCappedByFdLimit ==
    /\ Returned("determine_threads_for_drive") => ret[1] >= 1
    /\ Returned("cap_threads_by_fd_limit") =>
          LET selected == call[2]
              limit == call[3]
              budget == IF limit = None THEN 0 ELSE (limit[1] * 8) \div 10
              cap == IF budget < 10 THEN 1 ELSE (limit[1] * 8) \div 100
          IN  /\ limit = None => ret[1] = selected
              /\ limit # None =>
                    ret[1] = (IF selected < cap THEN selected ELSE cap)
              /\ ret[1] >= 1

\* A soft limit of 5 descriptors, too small for one worker, capped 12
\* selected workers to 1.
C35_Witness ==
    /\ Returned("cap_threads_by_fd_limit")
    /\ call[2] = NETWORK_MAX_THREADS /\ call[3] = Some(5)
    /\ ret = <<1>>

\* The matrix of worker counts for a stored drive type string and a latency.
WorkersByMatrix(drive_type, l) ==
    IF drive_type = NETWORK_HDD
    THEN (IF l > 10 THEN 2 ELSE IF l > 5 THEN 3 ELSE 4)
    ELSE (IF l > 10 THEN 4 ELSE IF l > 5 THEN 8 ELSE 12)

\* From one run of detect_optimal_workers to the next on the same root, a
\* diskinfo row stays and keeps its disk-type record.
DiskTypeRecordKept ==
    (call[1] = "detect_optimal_workers" /\ call[2] # None) =>
        /\ call'[2] # None
        /\ call'[2][1].disk_type = call[2][1].disk_type

\* C36: across the runs on one root, once a probe result is cached its
\* disk-type record (drive type string, IOPS, tested_at) never changes and
\* the IOPS probe does not run again while the row loads; a run that
\* completes stores the latency it measured and the worker count the matrix
\* gives for the cached drive type and that latency, and nothing else new.
C36_CachedDiskTypeStable ==
    /\ [](Returned("detect_optimal_workers") =>
            /\ call[2] = None => ret.probed
            /\ call[2] # None =>
                  /\ ~ret.probed
                  /\ ret.cache # None
                  /\ ret.cache[1].disk_type = call[2][1].disk_type
                  /\ ret.result[1] = "err" => ret.cache = call[2]
                  /\ ret.result[1] = "ok" =>
                        /\ call[4] # None
                        /\ ret.cache[1].network =
                              Some([latency_ms |-> call[4][1],
                                    measured_at |-> call[6]])
                        /\ ret.cache[1].recommended_workers =
                              WorkersByMatrix(call[2][1].disk_type.drive_type,
                                              call[4][1])
                        /\ ret.result[2] = ret.cache[1].recommended_workers)
    /\ [][DiskTypeRecordKept]_vars

\* The third run found the Network+HDD record of the first run although the
\* disk would now probe as an SSD, measured 11 ms after 0 ms, and went from 4
\* recommended workers to 2.
C36_Witness ==
    /\ Returned("detect_optimal_workers")
    /\ call[6] = 3
    /\ call[2] # None
    /\ call[2][1].disk_type =
          [drive_type |-> NETWORK_HDD,
           random_iops |-> IOPS_HDD_THRESHOLD - 1,
           tested_at |-> 1]
    /\ call[2][1].network[1].latency_ms = 0
    /\ call[2][1].recommended_workers = 4
    /\ call[3] = Some(IOPS_HDD_THRESHOLD) /\ call[4] = Some(11)
    /\ ret.result = <<"ok", 2, FALSE>>
    /\ ret.cache[1].recommended_workers = 2

\* C37: when the network probe fails, the drive type stays Network and the
\* worker count falls back to the default of an unknown drive,
\* min(available, 2), with the serial walker; a result is returned, the run
\* does not fail.
C37_ProbeFailureFallsBackToFloor ==
    (/\ Returned("determine_threads_for_drive")
     /\ call[2] = "Network"
     /\ call[4][1] = "err") =>
        ret = <<(IF call[3] < 2 THEN call[3] ELSE 2), "Network", FALSE>>

\* ---------------------------------------------------------------------
\* The writer pool (engine/db_ops/indexer.rs apply_index_diff_pooled).

\* The largest pool size explored; hash values range over 0..MaxPool - 1.
MaxPool == 3

\* The paths of the entries and of the prior rows of a call.
PoolPaths == {1, 2}

\* Entries handed to the writers: any slice of entries, a path may occur
\* more than once.
PoolEntries == [path : PoolPaths, mtime_ns : {1000, 1001}, size : {10}, hash : {None}]

\* What DefaultHasher gives for each path: some fixed function of the path.
PathHashers == [PoolPaths -> 0..(MaxPool - 1)]

\* indexer.rs path_bucket: (hasher.finish() as usize) % n_buckets
path_bucket(path, n_buckets, hasher) == hasher[path] % n_buckets

\* entries.iter().map(|e| e.path.clone()).collect::<HashSet<_>>()
PathsOf(entries) == {entries[i].path : i \in DOMAIN entries}

\* The entries of a slice that entry_needs_update selects, in order.
NeedingUpdate(entries, prior, window) ==
    LET needs(e) == entry_needs_update(e, prior, window)
    IN  SelectSeq(entries, needs)

\* Variant: the removed paths are left out of the buckets.
partition_index_diff_without_deletes(entries, prior, current, n_buckets, window, hasher) ==
    [b \in 1..n_buckets |->
        LET here(e) == /\ entry_needs_update(e, prior, window)
                       /\ path_bucket(e.path, n_buckets, hasher) = b - 1
        IN  [entries |-> SelectSeq(entries, here), deletes |-> {}]]

\* indexer.rs partition_index_diff: bucket b (counted from 1 here) holds the
\* entries needing an update whose path hashes to it, in the order of the
\* slice, and the keys of `existing` absent from current_paths that hash to
\* it (a set: they are distinct keys, deleted in one transaction).
partition_index_diff(entries, prior, current, n_buckets, window, hasher) ==
    [b \in 1..n_buckets |->
        LET here(e) == /\ entry_needs_update(e, prior, window)
                       /\ path_bucket(e.path, n_buckets, hasher) = b - 1
        IN  [entries |-> SelectSeq(entries, here),
             deletes |-> {p \in DOMAIN prior \ current :
                             path_bucket(p, n_buckets, hasher) = b - 1}]]

\* One writer's transaction: the inserts of its bucket in order, then its
\* deletes.
write_bucket(tbl, bucket) ==
    LET inserted == flush_batch(tbl, bucket.entries)
    IN  [q \in DOMAIN inserted \ bucket.deletes |-> inserted[q]]

\* indexer.rs apply_index_diff, the table it commits: the entries needing an
\* update inserted in order, then delete_removed_paths, in one transaction.
apply_index_diff(tbl, entries, prior, window) ==
    delete_removed_paths(flush_batch(tbl, NeedingUpdate(entries, prior, window)),
                         prior, PathsOf(entries))

\* The progress of one call: the paths table, the buckets, the writers that
\* committed and those that failed, the transactions committed, the
\* checkpoints run and the result.
PoolState(tbl, bs, done, bad, txs, cps, res) ==
    [table |-> tbl, buckets |-> bs, committed |-> done, failed |-> bad,
     transactions |-> txs, checkpoints |-> cps, result |-> res]

\* call = <<name, entries, existing, pool_size, hasher>>; the table holds
\* the rows of `existing`, which was loaded from it.
PooledCalls ==
    {<<"apply_index_diff_pooled", es, prior, n, h>> :
        es \in SeqsUpTo(PoolEntries, Cardinality(PoolPaths)),
        prior \in PartialMaps(PoolPaths, IndexRows),
        n \in 0..MaxPool,
        h \in PathHashers}

\* pool_size <= 1: `return apply_index_diff(..)`, which succeeds.
PooledApplyIndexDiff ==
    /\ fn_pc = "call"
    /\ call[1] = "apply_index_diff_pooled"
    /\ call[4] <= 1
    /\ ret' = PoolState(apply_index_diff(call[3], call[2], call[3], mtime_window_ns),
                        << >>, {}, {}, 1, 1, "ok")
    /\ fn_pc' = "returned"
    /\ UNCHANGED <<programVars, call>>

\* pool_size <= 1: a statement or the commit of apply_index_diff fails; the
\* transaction is rolled back and no checkpoint runs.
PooledApplyIndexDiffFails ==
    /\ fn_pc = "call"
    /\ call[1] = "apply_index_diff_pooled"
    /\ call[4] <= 1
    /\ ret' = PoolState(call[3], << >>, {}, {}, 0, 0, "err")
    /\ fn_pc' = "returned"
    /\ UNCHANGED <<programVars, call>>

\* pool_size > 1: the buckets are built, then handed to the parallel
\* iterator.
PooledPartition ==
    /\ fn_pc = "call"
    /\ call[1] = "apply_index_diff_pooled"
    /\ call[4] > 1
    /\ ret' = PoolState(call[3],
                        partition_index_diff(call[2], call[3], PathsOf(call[2]),
                                             call[4], mtime_window_ns, call[5]),
                        {}, {}, 0, 0, "none")
    /\ fn_pc' = "writers"
    /\ UNCHANGED <<programVars, call>>

\* The closure of one bucket: open_db, a transaction with the inserts and
\* the deletes of the bucket, commit.
PooledWriterCommit(b) ==
    /\ fn_pc = "writers"
    /\ b \in DOMAIN ret.buckets
    /\ b \notin ret.committed \cup ret.failed
    /\ ret' = [ret EXCEPT !.table = write_bucket(ret.table, ret.buckets[b]),
                          !.committed = @ \cup {b},
                          !.transactions = @ + 1]
    /\ UNCHANGED <<programVars, call, fn_pc>>

\* The closure of one bucket returns an error: nothing of it is committed.
PooledWriterFails(b) ==
    /\ fn_pc = "writers"
    /\ b \in DOMAIN ret.buckets
    /\ b \notin ret.committed \cup ret.failed
    /\ ret' = [ret EXCEPT !.failed = @ \cup {b}]
    /\ UNCHANGED <<programVars, call, fn_pc>>

\* `for r in results { r?; }` after every closure returned, then the
\* checkpoint on the caller's connection.
PooledCollect ==
    /\ fn_pc = "writers"
    /\ ret.committed \cup ret.failed = DOMAIN ret.buckets
    /\ ret' = IF ret.failed = {}
              THEN [ret EXCEPT !.checkpoints = @ + 1, !.result = "ok"]
              ELSE [ret EXCEPT !.result = "err"]
    /\ fn_pc' = "returned"
    /\ UNCHANGED <<programVars, call>>

InitPool ==
    /\ disk = EmptyMap
    /\ walk_fail = {} /\ meta_fail = {} /\ filtered = {}
    /\ dir_writable = TRUE
    /\ is_network = FALSE
    /\ write_to_db = TRUE /\ with_hash = FALSE /\ paranoid = FALSE
    /\ strict = FALSE
    /\ mtime_window_ns = 0
    /\ num_threads = 1 /\ channel_cap = 1
    /\ final_file = NoFile /\ temp_file = NoFile /\ temp_sidecars = {}
    /\ final0 = NoFile
    /\ existing = EmptyMap
    /\ InitRunCore
    /\ call \in PooledCalls
    /\ ret = << >>
    /\ fn_pc = "call"

NextPool ==
    \/ PooledApplyIndexDiff
    \/ PooledApplyIndexDiffFails
    \/ PooledPartition
    \/ \E b \in 1..MaxPool : PooledWriterCommit(b) \/ PooledWriterFails(b)
    \/ PooledCollect

SpecPool == InitPool /\ [][NextPool]_vars

\* The buckets that hold an operation on path p.
BucketsOf(p) ==
    {b \in DOMAIN ret.buckets :
        \/ p \in PathsOf(ret.buckets[b].entries)
        \/ p \in ret.buckets[b].deletes}

\* While the writers run, a step changes the table by the whole bucket of
\* one writer, or not at all.
OneTransactionPerWriter ==
    (fn_pc = "writers" /\ ret' # ret /\ fn_pc' = "writers") =>
        \E b \in DOMAIN ret.buckets \ (ret.committed \cup ret.failed) :
            \/ /\ ret'.committed = ret.committed \cup {b}
               /\ ret'.failed = ret.failed
               /\ ret'.table = write_bucket(ret.table, ret.buckets[b])
            \/ /\ ret'.failed = ret.failed \cup {b}
               /\ ret'.committed = ret.committed
               /\ ret'.table = ret.table

\* C38: with pool_size > 1 every entry needing an update and every removed
\* path is in exactly one bucket and all operations on one path are in the
\* same bucket; each writer commits its bucket in its own transaction; the
\* one checkpoint runs after all writers finished; and when every writer
\* succeeded the paths table is the one apply_index_diff commits for the same
\* inputs. With pool_size <= 1 the call is apply_index_diff itself.
C38_PooledEqualsSingleWriter ==
    /\ []((call[1] = "apply_index_diff_pooled" /\ fn_pc # "call") =>
            LET entries == call[2]
                prior == call[3]
                pool_size == call[4]
                needing == NeedingUpdate(entries, prior, mtime_window_ns)
                gone == DOMAIN prior \ PathsOf(entries)
                single == apply_index_diff(prior, entries, prior, mtime_window_ns)
            IN  /\ pool_size > 1 =>
                      /\ DOMAIN ret.buckets = 1..pool_size
                      /\ \A p \in PoolPaths : Cardinality(BucketsOf(p)) <= 1
                      /\ \A p \in PathsOf(needing) \cup gone :
                            Cardinality(BucketsOf(p)) = 1
                      /\ \A b \in DOMAIN ret.buckets :
                            LET here(e) == BucketsOf(e.path) = {b}
                            IN  /\ ret.buckets[b].entries = SelectSeq(needing, here)
                                /\ ret.buckets[b].deletes =
                                      {p \in gone : BucketsOf(p) = {b}}
                      /\ ret.transactions = Cardinality(ret.committed)
                      /\ fn_pc = "writers" => ret.checkpoints = 0
                      /\ (fn_pc = "returned" /\ ret.result = "ok") =>
                            /\ ret.committed = 1..pool_size
                            /\ ret.checkpoints = 1
                            /\ ret.table = single
                      /\ (fn_pc = "returned" /\ ret.result = "err") =>
                            ret.checkpoints = 0
                /\ (pool_size <= 1 /\ ret.result = "ok") =>
                      /\ ret.table = single
                      /\ ret.transactions = 1 /\ ret.checkpoints = 1)
    /\ [][OneTransactionPerWriter]_vars

\* Three writers finished: two entries of different mtime for one new path
\* went to one writer, in order, a removed path to another writer, and the
\* table is the single writer's.
C38_Witness ==
    /\ Returned("apply_index_diff_pooled")
    /\ call[4] = 3 /\ ret.result = "ok"
    /\ Len(call[2]) = 2 /\ call[2][1].path = call[2][2].path
    /\ call[2][1].mtime_ns # call[2][2].mtime_ns
    /\ \E b \in 1..3 : Len(ret.buckets[b].entries) = 2
    /\ \E b \in 1..3 : ret.buckets[b].entries = << >> /\ ret.buckets[b].deletes # {}
    /\ ret.table = apply_index_diff(call[3], call[2], call[3], mtime_window_ns)
    /\ ret.table # call[3]

\* ---------------------------------------------------------------------
\* Accounting of the work in the pipeline.

\* A run in either mode with one or more workers, bounded channels, walk
\* errors, filtered paths, paths whose metadata cannot be read and, in write
\* mode, Ctrl+C.
InitWork ==
    /\ disk \in PartialMaps(Paths, PipeMetas)
    /\ walk_fail \in SUBSET Paths
    /\ filtered \in SUBSET Paths
    /\ OneSpecialPath
    /\ meta_fail \in SUBSET DOMAIN disk
    /\ dir_writable = TRUE
    /\ is_network = FALSE
    /\ write_to_db \in BOOLEAN
    /\ with_hash = FALSE /\ paranoid = FALSE
    /\ strict \in BOOLEAN
    /\ mtime_window_ns = 0
    /\ num_threads \in 1..MaxWorkers
    /\ channel_cap \in 1..MaxCap
    /\ final_file = NoFile /\ temp_file = NoFile /\ final0 = NoFile
    /\ temp_sidecars = {}
    /\ existing = EmptyMap
    /\ InitRunState

NextWork == NextPipe \/ CtrlC

SpecWork == InitWork /\ [][NextWork]_vars

\* The paths the walker has sent so far, in order.
SentSoFar == SelectSeq(WalkedPast, Sendable)

\* The number of times p occurs in a sequence of paths.
Occurrences(p, q) == Cardinality({i \in DOMAIN q : q[i] = p})

\* The paths of a sequence of entries.
EntryPaths(q) == [i \in DOMAIN q |-> q[i].path]

\* The paths of the entries the consumer has received: the write-mode
\* consumer records them in current_paths, the library-mode consumer holds
\* them in its chunk and then in the current index.
ReceivedPaths ==
    IF write_to_db
    THEN current_paths
    ELSE Range(EntryPaths(chunk)) \cup DOMAIN current_index

\* The number of entries the consumer has received.
ReceivedEntries ==
    IF write_to_db
    THEN received
    ELSE Len(chunk) + Cardinality(DOMAIN current_index)

\* The number of places path p is at: waiting in the path channel, held by
\* a worker as an entry, waiting in the entry channel, or received.
InPathChannel(p) == Occurrences(p, path_chan)
HeldByWorkers(p) ==
    Cardinality({w \in Workers : w_entry[w] # None /\ w_entry[w][1].path = p})
InEntryChannel(p) == Occurrences(p, EntryPaths(entry_chan))
Received(p) ==
    IF write_to_db
    THEN (IF p \in current_paths THEN 1 ELSE 0)
    ELSE Occurrences(p, EntryPaths(chunk))
            + (IF p \in DOMAIN current_index THEN 1 ELSE 0)
Places(p) == InPathChannel(p) + HeldByWorkers(p) + InEntryChannel(p) + Received(p)

\* A path leaves the path channel from its head and goes to one worker, or,
\* when its metadata cannot be read, to none.
TakenByOneWorker ==
    Len(path_chan') < Len(path_chan) =>
        /\ path_chan' = Tail(path_chan)
        /\ LET p == Head(path_chan)
               takers == {w \in Workers : w_entry'[w] # w_entry[w]}
           IN  IF p \in meta_fail
               THEN takers = {}
               ELSE /\ Cardinality(takers) = 1
                    /\ \A w \in takers :
                          /\ w_entry[w] = None
                          /\ w_entry'[w] # None
                          /\ w_entry'[w][1].path = p

\* C39: under every interleaving of walker, workers and consumer, each path
\* the walker sent is taken by exactly one worker; each path whose metadata
\* read succeeds is, while the consumer receives, at exactly one place on its
\* way and is received exactly once by the end of the run; nothing is in the
\* pipeline or received that was not sent; and the number of entries
\* received never exceeds the walker's count.
C39_NoWorkLostOrDuplicated ==
    /\ [](/\ count = Len(SentSoFar)
          /\ \A p \in Paths :
                /\ Places(p) <= 1
                /\ Places(p) = 1 => p \in Range(SentSoFar)
                /\ p \in meta_fail => Places(p) = InPathChannel(p)
                /\ (p \in Range(SentSoFar) /\ p \notin meta_fail
                      /\ ~cancel_seen /\ s_pc # "err") => Places(p) = 1
          /\ ReceivedEntries = Cardinality(ReceivedPaths)
          /\ ReceivedEntries <= count
          /\ (pc = "done" /\ result = "ok") =>
                ReceivedPaths = Range(SentSoFar) \ meta_fail)
    /\ [][TakenByOneWorker]_vars

\* A run with two workers ended: two paths were sent, the metadata of one
\* could not be read, the entry of the other was received.
C39_Witness ==
    /\ pc = "done" /\ result = "ok"
    /\ num_threads = 2
    /\ count = 2
    /\ Cardinality(meta_fail) = 1
    /\ ReceivedEntries = 1

\* ---------------------------------------------------------------------
\* Exclusion below an excluded directory.

\* The name or the full string of the path matches an exclude pattern.
MatchesExcludePattern(path) ==
    \E i \in 1..Len(RunExclude) :
        \/ WholeTextMatches(strip_prefix_bang(RunExclude[i]), file_name(path))
        \/ WholeTextMatches(strip_prefix_bang(RunExclude[i]), path)

\* Path q of the run lies under a walked directory that an exclude pattern
\* matches.
UnderExcludedDirectory(q) ==
    \E p \in Paths :
        /\ starts_with(RunNames[q], RunNames[p] \o <<"/">>)
        /\ MatchesExcludePattern(RunNames[p])

====
